---- MODULE Spec2Model ----
(***************************************************************************)
(* Parcel matching and CGT engine of share-parcel-tracker.                 *)
(*                                                                         *)
(* The database holds three tables: Transaction (txns), Parcel (parcels)   *)
(* and ParcelMatch (matches); a row's primary key is its position in the   *)
(* sequence.  Request handlers (Procs) call the services confirm_import,   *)
(* match, confirm_matches and forecast.  confirm_matches runs inside       *)
(* transaction.atomic and takes a row lock on every parcel it reads with   *)
(* select_for_update: its writes stay private to the handler (txnParcels,  *)
(* txnSaved) until the commit and are discarded when MatchingError         *)
(* propagates out of the atomic block.                                     *)
(*                                                                         *)
(* Units: quantities, unit prices, brokerage and exchange rates are whole  *)
(* numbers.  cost_per_unit_aud and total_cost_base_aud are counted in      *)
(* 10^-6 (the 6 decimal places of the column).  The amounts calculate_cgt  *)
(* computes are counted in halves of 10^-6, so that gain * 0.5 is exact.   *)
(***************************************************************************)
EXTENDS Integers, Sequences, FiniteSets, TLC

VARIABLES
    txns,        \* Transaction table
    parcels,     \* Parcel table (committed rows)
    matches,     \* ParcelMatch table (committed rows)
    pc,          \* per handler: "idle", "confirm" or a forecast step
    call,        \* per handler: the arguments of its last service call
    proposal,    \* per handler: the unsaved ParcelMatch list match returned
    outcome,     \* per handler: how its last service call ended
    idx,         \* per handler: position of confirm_matches in its list
    txnParcels,  \* per handler: parcel rows written in its open transaction
    txnSaved,    \* per handler: ParcelMatch rows saved in its open transaction
    locks,       \* per handler: parcels it holds FOR UPDATE
    pre,         \* per handler: the database as it was when confirm_matches began
    fc,          \* per handler: the forecast being computed / last returned
    report,      \* what the last confirm_import or fy_summary call returned
    session      \* the browser session: stored data and each request's copy

vars == <<txns, parcels, matches, pc, call, proposal, outcome, idx,
          txnParcels, txnSaved, locks, pre, fc, report, session>>

----------------------------------------------------------------------------
(* Bounds of the model *)

MaxQty == 2
MaxTxns == 3
FewTxns == 2

(* decimal_places = 6 of the money columns *)
Micro == 1000000

(* holding_period_days > 365 *)
DiscountDays == 365

MaxPairs == 2

Procs == {1, 2}
Securities == {1, 2}
Quantities == {0, 1, MaxQty}

----------------------------------------------------------------------------
(* Helpers on sequences *)

RECURSIVE SumSeq(_)
SumSeq(s) == IF s = <<>> THEN 0 ELSE Head(s) + SumSeq(Tail(s))

Min(a, b) == IF a <= b THEN a ELSE b

(* All orderings of the finite set S *)
Perms(S) ==
    {f \in [1 .. Cardinality(S) -> S] :
        \A i, j \in 1 .. Cardinality(S) : i # j => f[i] # f[j]}

(* Decimal rounding, ROUND_HALF_EVEN, of n / d for d > 0 *)
RoundHalfEven(n, d) ==
    LET q == n \div d
        r == n % d
    IN  IF 2 * r < d THEN q
        ELSE IF 2 * r > d THEN q + 1
        ELSE IF q % 2 = 0 THEN q ELSE q + 1

(* A value counted in halves of 10^-6, quantized to the 6 decimal places   *)
(* of a DecimalField column when the row is saved.                         *)
Quantize6(h) == 2 * RoundHalfEven(h, 2)

----------------------------------------------------------------------------
(* CSV import: confirm_import *)

(* Valid rows as parse_csv_file produces them (quantity is abs()'d, so it  *)
(* is never negative, but it may be zero).                                 *)
RowSet(types, secs, dates, qtys, prices, brokerages, rates) ==
    [transaction_type : types, security : secs, trade_date : dates,
     quantity : qtys, unit_price : prices, brokerage : brokerages,
     exchange_rate : rates]

(* The fields of the unique_transaction constraint *)
UniqueKey(t) ==
    <<t.trade_date, t.security, t.transaction_type, t.quantity, t.unit_price>>

(* find_duplicates: the rows of the file whose key is already in the table *)
find_duplicates(file, table) ==
    {i \in 1 .. Len(file) :
        \E k \in 1 .. Len(table) : UniqueKey(table[k]) = UniqueKey(file[i])}

(* A parcel created with nothing left in it: a variant of                  *)
(* CreateParcelFromBuy                                                     *)
CreateParcelUsedUp(txn, txnId) ==
    [transaction |-> txnId,
     security |-> txn.security,
     acquisition_date |-> txn.trade_date,
     original_quantity |-> txn.quantity,
     remaining_quantity |-> 0,
     cost_per_unit_aud |-> 0,
     total_cost_base_aud |-> 0,
     is_fully_matched |-> TRUE]

(* _create_parcel_from_buy; txnId is the pk of the BUY just created.       *)
(* cost_per_unit is rounded to the 6 places of its column.                 *)
CreateParcelFromBuy(txn, txnId) ==
    LET cost_base == (txn.quantity * txn.unit_price + txn.brokerage)
                        * txn.exchange_rate
        cost_per_unit == IF txn.quantity # 0
                         THEN RoundHalfEven(cost_base * Micro, txn.quantity)
                         ELSE 0
    IN  [transaction |-> txnId,
         security |-> txn.security,
         acquisition_date |-> txn.trade_date,
         original_quantity |-> txn.quantity,
         remaining_quantity |-> txn.quantity,
         cost_per_unit_aud |-> cost_per_unit,
         total_cost_base_aud |-> cost_base * Micro,
         is_fully_matched |-> FALSE]

(* The loop of confirm_import from row i on.  ts, ps: the tables so far.   *)
(* Transaction.objects.create raises IntegrityError when the row's key is  *)
(* already in the table (a key repeated inside the file).                  *)
RECURSIVE ImportRows(_, _, _, _, _, _)
ImportRows(file, i, dups, ts, ps, created) ==
    IF i > Len(file)
    THEN [error |-> FALSE, txns |-> ts, parcels |-> ps, row_count |-> created]
    ELSE IF i \in dups
    THEN ImportRows(file, i + 1, dups, ts, ps, created)
    ELSE IF \E k \in 1 .. Len(ts) : UniqueKey(ts[k]) = UniqueKey(file[i])
    THEN [error |-> TRUE, txns |-> ts, parcels |-> ps, row_count |-> created]
    ELSE LET ts2 == Append(ts, file[i])
             ps2 == IF file[i].transaction_type = "BUY"
                    THEN Append(ps, CreateParcelFromBuy(file[i], Len(ts2)))
                    ELSE ps
         IN  ImportRows(file, i + 1, dups, ts2, ps2, created + 1)

confirm_import(file, ts, ps) ==
    ImportRows(file, 1, find_duplicates(file, ts), ts, ps, 0)

----------------------------------------------------------------------------
(* Financial years: datetime.date, get_fy_range, fy_summary,               *)
(* _get_available_fys.  A date is its proleptic Gregorian ordinal, as      *)
(* date.toordinal() gives it, so that a difference of dates is a number of *)
(* days.                                                                   *)

IsLeap(y) == y % 4 = 0 /\ (y % 100 # 0 \/ y % 400 = 0)

DaysInMonth(y, m) ==
    IF m = 2 THEN (IF IsLeap(y) THEN 29 ELSE 28)
    ELSE IF m \in {4, 6, 9, 11} THEN 30 ELSE 31

RECURSIVE DaysBeforeMonth(_, _)
DaysBeforeMonth(y, m) ==
    IF m <= 1 THEN 0 ELSE DaysBeforeMonth(y, m - 1) + DaysInMonth(y, m - 1)

DaysBeforeYear(y) ==
    (y - 1) * 365 + (y - 1) \div 4 - (y - 1) \div 100 + (y - 1) \div 400

(* Date(y, m, d) *)
Date(y, m, d) == DaysBeforeYear(y) + DaysBeforeMonth(y, m) + d

(* The years the dates of the model lie in *)
Years == 2024 .. 2026

(* The first day of every month of these years *)
MonthStart == [y \in Years |-> [m \in 1 .. 12 |-> Date(y, m, 1)]]

(* d.year and d.month of the date d *)
YearOf(d) ==
    CHOOSE y \in Years :
        MonthStart[y][1] <= d /\ d < MonthStart[y][12] + DaysInMonth(y, 12)

MonthOf(d) ==
    LET y == YearOf(d)
    IN  CHOOSE m \in 1 .. 12 :
            MonthStart[y][m] <= d /\ d < MonthStart[y][m] + DaysInMonth(y, m)

(* get_fy_range: <<start, end>> of the financial year *)
get_fy_range(financial_year) ==
    <<Date(financial_year - 1, 7, 1), Date(financial_year, 6, 30)>>

(* The query of fy_summary with __lt in place of __lte for the end date *)
FyMatchesBeforeEnd(ms, ts, financial_year) ==
    LET r == get_fy_range(financial_year)
        InRange(m) == /\ ts[m.sell_transaction].trade_date >= r[1]
                      /\ ts[m.sell_transaction].trade_date < r[2]
    IN  SelectSeq(ms, InRange)

(* ParcelMatch.objects.filter(sell_transaction__trade_date__gte=fy_start,  *)
(* sell_transaction__trade_date__lte=fy_end)                               *)
FyMatches(ms, ts, financial_year) ==
    LET r == get_fy_range(financial_year)
        InRange(m) == /\ ts[m.sell_transaction].trade_date >= r[1]
                      /\ ts[m.sell_transaction].trade_date <= r[2]
    IN  SelectSeq(ms, InRange)

(* An entry of per_security before its first match *)
NoTicker(ticker) ==
    [ticker |-> ticker, gains |-> 0, losses |-> 0, discounts |-> 0,
     net |-> 0, match_count |-> 0]

(* The loop of fy_summary over the matches sel from i on.  acc holds the   *)
(* four totals and the dictionary per_security.                            *)
RECURSIVE FyLoop(_, _, _, _)
FyLoop(sel, ps, i, acc) ==
    IF i > Len(sel)
    THEN acc
    ELSE LET m == sel[i]
             ticker == ps[m.parcel].security
             up == m.capital_gain_loss > 0
             old == IF ticker \in DOMAIN acc.per_security
                    THEN acc.per_security[ticker]
                    ELSE NoTicker(ticker)
             new == [old EXCEPT
                        !.gains = IF up THEN @ + m.capital_gain_loss ELSE @,
                        !.losses = IF up THEN @ ELSE @ + m.capital_gain_loss,
                        !.discounts = @ + m.discount_amount,
                        !.net = @ + m.net_capital_gain,
                        !.match_count = @ + 1]
         IN  FyLoop(sel, ps, i + 1,
                [total_gains |->
                     IF up THEN acc.total_gains + m.capital_gain_loss
                     ELSE acc.total_gains,
                 total_losses |->
                     IF up THEN acc.total_losses
                     ELSE acc.total_losses + m.capital_gain_loss,
                 total_discounts |-> acc.total_discounts + m.discount_amount,
                 total_net |-> acc.total_net + m.net_capital_gain,
                 per_security |->
                     [t \in DOMAIN acc.per_security \cup {ticker} |->
                         IF t = ticker THEN new ELSE acc.per_security[t]]])

(* per_security in descending order of ticker: a variant of SortedByTicker *)
SortedByTickerDescending(per) ==
    LET o == CHOOSE o \in Perms(DOMAIN per) :
                 \A i, j \in 1 .. Len(o) : i < j => o[i] > o[j]
    IN  [i \in 1 .. Len(o) |-> per[o[i]]]

(* sorted(per_security.values(), key=lambda x: x["ticker"]); tickers are   *)
(* distinct, so the order is the only one                                  *)
SortedByTicker(per) ==
    LET o == CHOOSE o \in Perms(DOMAIN per) :
                 \A i, j \in 1 .. Len(o) : i < j => o[i] < o[j]
    IN  [i \in 1 .. Len(o) |-> per[o[i]]]

(* fy_summary: the dictionary it returns (fy_label left out) *)
fy_summary(ms, ts, ps, financial_year) ==
    LET r == get_fy_range(financial_year)
        sel == FyMatches(ms, ts, financial_year)
        acc == FyLoop(sel, ps, 1,
                      [total_gains |-> 0, total_losses |-> 0,
                       total_discounts |-> 0, total_net |-> 0,
                       per_security |-> <<>>])
    IN  [financial_year |-> financial_year,
         start_date |-> r[1],
         end_date |-> r[2],
         total_gains |-> acc.total_gains,
         total_losses |-> acc.total_losses,
         total_discounts |-> acc.total_discounts,
         net_capital_gain |-> acc.total_net,
         match_count |-> Len(sel),
         per_security |-> SortedByTicker(acc.per_security)]

(* _get_available_fys: the financial years of the sell dates that have     *)
(* matches                                                                 *)
get_available_fys(ms, ts) ==
    LET sell_dates == {ts[ms[k].sell_transaction].trade_date :
                          k \in 1 .. Len(ms)}
    IN  {IF MonthOf(d) >= 7 THEN YearOf(d) + 1 ELSE YearOf(d) :
            d \in sell_dates}

----------------------------------------------------------------------------
(* CGT calculation: calculate_cgt                                          *)

(* calculate_cgt with the discount given from the 365th day on *)
calculate_cgt_from_365_days(parcel, sell, matched_quantity) ==
    LET cost_base_aud == 2 * parcel.cost_per_unit_aud * matched_quantity
        proceeds_aud == 2 * Micro * sell.unit_price * sell.exchange_rate
                            * matched_quantity
        capital_gain_loss == proceeds_aud - cost_base_aud
        holding_period_days == sell.trade_date - parcel.acquisition_date
        cgt_discount_eligible ==
            holding_period_days >= DiscountDays /\ capital_gain_loss > 0
        discount_amount ==
            IF cgt_discount_eligible THEN capital_gain_loss \div 2 ELSE 0
    IN  [cost_base_aud |-> cost_base_aud,
         proceeds_aud |-> proceeds_aud,
         capital_gain_loss |-> capital_gain_loss,
         holding_period_days |-> holding_period_days,
         cgt_discount_eligible |-> cgt_discount_eligible,
         discount_amount |-> discount_amount,
         net_capital_gain |-> capital_gain_loss - discount_amount]

(* calculate_cgt with the sale's brokerage taken off the proceeds *)
calculate_cgt_less_brokerage(parcel, sell, matched_quantity) ==
    LET cost_base_aud == 2 * parcel.cost_per_unit_aud * matched_quantity
        proceeds_aud == 2 * Micro * (sell.unit_price * sell.exchange_rate
                                        * matched_quantity - sell.brokerage)
        capital_gain_loss == proceeds_aud - cost_base_aud
        holding_period_days == sell.trade_date - parcel.acquisition_date
        cgt_discount_eligible ==
            holding_period_days > DiscountDays /\ capital_gain_loss > 0
        discount_amount ==
            IF cgt_discount_eligible THEN capital_gain_loss \div 2 ELSE 0
    IN  [cost_base_aud |-> cost_base_aud,
         proceeds_aud |-> proceeds_aud,
         capital_gain_loss |-> capital_gain_loss,
         holding_period_days |-> holding_period_days,
         cgt_discount_eligible |-> cgt_discount_eligible,
         discount_amount |-> discount_amount,
         net_capital_gain |-> capital_gain_loss - discount_amount]

(* sell needs trade_date, unit_price, exchange_rate.  Amounts are in       *)
(* halves of 10^-6.                                                        *)
calculate_cgt(parcel, sell, matched_quantity) ==
    LET cost_base_aud == 2 * parcel.cost_per_unit_aud * matched_quantity
        proceeds_per_unit == sell.unit_price * sell.exchange_rate
        proceeds_aud == 2 * Micro * proceeds_per_unit * matched_quantity
        capital_gain_loss == proceeds_aud - cost_base_aud
        holding_period_days == sell.trade_date - parcel.acquisition_date
        cgt_discount_eligible ==
            holding_period_days > DiscountDays /\ capital_gain_loss > 0
        discount_amount ==
            IF cgt_discount_eligible THEN capital_gain_loss \div 2 ELSE 0
    IN  [cost_base_aud |-> cost_base_aud,
         proceeds_aud |-> proceeds_aud,
         capital_gain_loss |-> capital_gain_loss,
         holding_period_days |-> holding_period_days,
         cgt_discount_eligible |-> cgt_discount_eligible,
         discount_amount |-> discount_amount,
         net_capital_gain |-> capital_gain_loss - discount_amount]

(* _build_match: an unsaved ParcelMatch for parcel pid and SELL sid *)
BuildMatch(pid, parcel, sid, sell, qty) ==
    LET cgt == calculate_cgt(parcel, sell, qty)
    IN  [parcel |-> pid,
         sell_transaction |-> sid,
         matched_quantity |-> qty,
         cost_base_aud |-> cgt.cost_base_aud,
         proceeds_aud |-> cgt.proceeds_aud,
         capital_gain_loss |-> cgt.capital_gain_loss,
         holding_period_days |-> cgt.holding_period_days,
         cgt_discount_eligible |-> cgt.cgt_discount_eligible,
         discount_amount |-> cgt.discount_amount,
         net_capital_gain |-> cgt.net_capital_gain]

(* ParcelMatch.save(): the row as the database stores it, its money        *)
(* columns quantized to 6 decimal places.                                  *)
SaveMatch(m) ==
    [m EXCEPT !.cost_base_aud = Quantize6(@),
              !.proceeds_aud = Quantize6(@),
              !.capital_gain_loss = Quantize6(@),
              !.discount_amount = Quantize6(@),
              !.net_capital_gain = Quantize6(@)]

----------------------------------------------------------------------------
(* Matching engine: match, _match_auto, _match_manual                      *)

Strategies == {"fifo", "lifo", "manual", "optimal"}

(* Parcel.objects.filter(security=..., remaining_quantity__gt=0) *)
AvailableParcels(tbl, sec) ==
    {i \in 1 .. Len(tbl) :
        tbl[i].security = sec /\ tbl[i].remaining_quantity > 0}

(* .order_by("acquisition_date"): every order of the rows the database may *)
(* return; rows with equal dates come in an order SQL leaves open.         *)
OrderByDateAsc(tbl, S) ==
    {o \in Perms(S) :
        \A i, j \in 1 .. Cardinality(S) :
            i < j => tbl[o[i]].acquisition_date <= tbl[o[j]].acquisition_date}

(* .order_by("-acquisition_date") *)
OrderByDateDesc(tbl, S) ==
    {o \in Perms(S) :
        \A i, j \in 1 .. Cardinality(S) :
            i < j => tbl[o[i]].acquisition_date >= tbl[o[j]].acquisition_date}

(* .order_by("cost_per_unit_aud"), cheapest first: a variant of            *)
(* OrderByCostDesc                                                         *)
OrderByCostAsc(tbl, S) ==
    {o \in Perms(S) :
        \A i, j \in 1 .. Cardinality(S) :
            i < j => tbl[o[i]].cost_per_unit_aud <= tbl[o[j]].cost_per_unit_aud}

(* .order_by("-cost_per_unit_aud") *)
OrderByCostDesc(tbl, S) ==
    {o \in Perms(S) :
        \A i, j \in 1 .. Cardinality(S) :
            i < j => tbl[o[i]].cost_per_unit_aud >= tbl[o[j]].cost_per_unit_aud}

(* A query without order_by: a variant of AutoOrders *)
AutoOrdersUnordered(tbl, sec, strategy) == Perms(AvailableParcels(tbl, sec))

(* The query of _match_auto for the strategy *)
AutoOrders(tbl, sec, strategy) ==
    IF strategy = "fifo"
    THEN OrderByDateAsc(tbl, AvailableParcels(tbl, sec))
    ELSE OrderByDateDesc(tbl, AvailableParcels(tbl, sec))

(* The loop of _match_auto over the ordered parcels, from position i *)
RECURSIVE AutoLoop(_, _, _, _, _, _, _)
AutoLoop(tbl, sid, sell, ord, i, remaining, acc) ==
    IF i > Len(ord) \/ remaining <= 0
    THEN [remaining |-> remaining, matches |-> acc]
    ELSE LET parcel == tbl[ord[i]]
             qty_from_parcel == Min(parcel.remaining_quantity, remaining)
         IN  AutoLoop(tbl, sid, sell, ord, i + 1, remaining - qty_from_parcel,
                      Append(acc, BuildMatch(ord[i], parcel, sid, sell,
                                             qty_from_parcel)))

(* _match_auto without its final check: a variant of MatchAuto that       *)
(* returns what it found.                                                  *)
MatchAutoPartial(tbl, sid, sell, sell_qty, ord) ==
    [error |-> FALSE,
     matches |-> AutoLoop(tbl, sid, sell, ord, 1, sell_qty, <<>>).matches]

(* _match_auto: the loop, then the check that nothing is left to match *)
MatchAuto(tbl, sid, sell, sell_qty, ord) ==
    LET r == AutoLoop(tbl, sid, sell, ord, 1, sell_qty, <<>>)
    IN  IF r.remaining > 0
        THEN [error |-> TRUE, matches |-> <<>>]
        ELSE [error |-> FALSE, matches |-> r.matches]

(* The loop of _match_manual without the skip of quantities that are 0 or  *)
(* less: a variant of ManualLoop                                           *)
RECURSIVE ManualLoopKeepsEveryPair(_, _, _, _, _, _, _, _)
ManualLoopKeepsEveryPair(tbl, sid, sell, ps, qs, i, total_matched, acc) ==
    IF i > Min(Len(ps), Len(qs))
    THEN [error |-> FALSE, total_matched |-> total_matched, matches |-> acc]
    ELSE LET parcel == tbl[ps[i]]
             qty == qs[i]
         IN  IF qty > parcel.remaining_quantity
             THEN [error |-> TRUE, total_matched |-> total_matched,
                   matches |-> acc]
             ELSE IF parcel.security # sell.security
             THEN [error |-> TRUE, total_matched |-> total_matched,
                   matches |-> acc]
             ELSE ManualLoopKeepsEveryPair(tbl, sid, sell, ps, qs, i + 1,
                      total_matched + qty,
                      Append(acc, BuildMatch(ps[i], parcel, sid, sell, qty)))

(* The loop of _match_manual over zip(parcels, quantities), from pair i *)
RECURSIVE ManualLoop(_, _, _, _, _, _, _, _)
ManualLoop(tbl, sid, sell, ps, qs, i, total_matched, acc) ==
    IF i > Min(Len(ps), Len(qs))
    THEN [error |-> FALSE, total_matched |-> total_matched, matches |-> acc]
    ELSE LET parcel == tbl[ps[i]]
             qty == qs[i]
         IN  IF qty <= 0
             THEN ManualLoop(tbl, sid, sell, ps, qs, i + 1, total_matched, acc)
             ELSE IF qty > parcel.remaining_quantity
             THEN [error |-> TRUE, total_matched |-> total_matched,
                   matches |-> acc]
             ELSE IF parcel.security # sell.security
             THEN [error |-> TRUE, total_matched |-> total_matched,
                   matches |-> acc]
             ELSE ManualLoop(tbl, sid, sell, ps, qs, i + 1,
                             total_matched + qty,
                             Append(acc, BuildMatch(ps[i], parcel, sid, sell,
                                                    qty)))

(* _match_manual without its final check of the total: a variant of      *)
(* MatchManual.                                                            *)
MatchManualAnyTotal(tbl, sid, sell, sell_qty, ps, qs) ==
    IF ps = <<>> \/ qs = <<>> \/ Len(ps) # Len(qs)
    THEN [error |-> TRUE, matches |-> <<>>]
    ELSE LET r == ManualLoop(tbl, sid, sell, ps, qs, 1, 0, <<>>)
         IN  IF r.error
             THEN [error |-> TRUE, matches |-> <<>>]
             ELSE [error |-> FALSE, matches |-> r.matches]

(* _match_manual: the checks of the lists, the loop, the check of the total *)
MatchManual(tbl, sid, sell, sell_qty, ps, qs) ==
    IF ps = <<>> \/ qs = <<>>
    THEN [error |-> TRUE, matches |-> <<>>]
    ELSE IF Len(ps) # Len(qs)
    THEN [error |-> TRUE, matches |-> <<>>]
    ELSE LET r == ManualLoop(tbl, sid, sell, ps, qs, 1, 0, <<>>)
         IN  IF r.error \/ r.total_matched # sell_qty
             THEN [error |-> TRUE, matches |-> <<>>]
             ELSE [error |-> FALSE, matches |-> r.matches]

(* match(): ord is the order the database returned for the auto query *)
match(tbl, sid, sell, strategy, ps, qs, ord) ==
    IF sell.transaction_type # "SELL"
    THEN [error |-> TRUE, matches |-> <<>>]
    ELSE IF strategy = "manual"
    THEN MatchManual(tbl, sid, sell, sell.quantity, ps, qs)
    ELSE IF strategy \in {"fifo", "lifo"}
    THEN MatchAuto(tbl, sid, sell, sell.quantity, ord)
    ELSE [error |-> TRUE, matches |-> <<>>]

----------------------------------------------------------------------------
(* Forecasting service: forecast, _simulate_strategy                       *)

(* The loop of _simulate_strategy over the ordered parcels, from i *)
RECURSIVE SimulateLoop(_, _, _, _, _, _)
SimulateLoop(tbl, fake_sell, ord, i, remaining, acc) ==
    IF i > Len(ord) \/ remaining <= 0
    THEN [acc EXCEPT !.quantity_shortfall = remaining]
    ELSE LET parcel == tbl[ord[i]]
             qty == Min(parcel.remaining_quantity, remaining)
             cgt == calculate_cgt(parcel, fake_sell, qty)
             item == [parcel_id |-> ord[i],
                      acquisition_date |-> parcel.acquisition_date,
                      matched_quantity |-> qty,
                      cost_per_unit_aud |-> parcel.cost_per_unit_aud,
                      cgt |-> cgt]
         IN  SimulateLoop(tbl, fake_sell, ord, i + 1, remaining - qty,
                [acc EXCEPT
                    !.parcels_consumed = Append(@, item),
                    !.total_cost_base = @ + cgt.cost_base_aud,
                    !.total_proceeds = @ + cgt.proceeds_aud,
                    !.total_gain_loss = @ + cgt.capital_gain_loss,
                    !.total_discount = @ + cgt.discount_amount,
                    !.total_net_gain = @ + cgt.net_capital_gain])

NoResult ==
    [parcels_consumed |-> <<>>, total_cost_base |-> 0, total_proceeds |-> 0,
     total_gain_loss |-> 0, total_discount |-> 0, total_net_gain |-> 0,
     quantity_matched |-> 0, quantity_shortfall |-> 0]

(* _simulate_strategy: the fake SELL has exchange_rate 1 *)
SimulateStrategy(tbl, ord, security, quantity, sell_price, sell_date) ==
    LET fake_sell == [security |-> security, trade_date |-> sell_date,
                      unit_price |-> sell_price, exchange_rate |-> 1,
                      transaction_type |-> "SELL"]
        r == SimulateLoop(tbl, fake_sell, ord, 1, quantity, NoResult)
    IN  [r EXCEPT !.quantity_matched = quantity - r.quantity_shortfall]

NoForecast ==
    [op |-> "none", security |-> 0, quantity |-> 0, sell_price |-> 0,
     sell_date |-> 0, stamps |-> {}, fifo |-> NoResult, lifo |-> NoResult,
     optimal |-> NoResult]

----------------------------------------------------------------------------
(* The state machine *)

(* Identifies the database contents: every committed change appends a      *)
(* Transaction or a ParcelMatch row.                                       *)
Stamp == <<Len(txns), Len(matches)>>

NoCall ==
    [op |-> "none", sell |-> 0, strategy |-> "none", parcels |-> <<>>,
     quantities |-> <<>>, stamp |-> <<0, 0>>]

(* The call record of a handler whose confirm_matches has ended *)
Finished == [NoCall EXCEPT !.op = "confirm_matches"]

NoPre == [parcels |-> <<>>, nm |-> 0]

(* What a reporting call returned: confirm_import's CSVImport row_count or *)
(* the exception it raised, fy_summary's dictionary.                       *)
NoSummary ==
    [financial_year |-> 0, start_date |-> 0, end_date |-> 0,
     total_gains |-> 0, total_losses |-> 0, total_discounts |-> 0,
     net_capital_gain |-> 0, match_count |-> 0, per_security |-> <<>>]

(* An empty session store; no request has loaded it *)
NotLoaded == [loaded |-> FALSE, data |-> <<>>]

NoSession ==
    [store |-> <<>>, local |-> [p \in Procs |-> NotLoaded], serial |-> 0,
     used |-> <<>>]

NoReport ==
    [op |-> "none", file |-> <<>>, before |-> <<0, 0>>, error |-> FALSE,
     row_count |-> 0, summary |-> NoSummary]

Init ==
    /\ txns = <<>>
    /\ parcels = <<>>
    /\ matches = <<>>
    /\ pc = [p \in Procs |-> "idle"]
    /\ call = [p \in Procs |-> NoCall]
    /\ proposal = [p \in Procs |-> <<>>]
    /\ outcome = [p \in Procs |-> "none"]
    /\ idx = [p \in Procs |-> 0]
    /\ txnParcels = [p \in Procs |-> <<>>]
    /\ txnSaved = [p \in Procs |-> <<>>]
    /\ locks = [p \in Procs |-> {}]
    /\ pre = [p \in Procs |-> NoPre]
    /\ fc = [p \in Procs |-> NoForecast]
    /\ report = NoReport
    /\ session = NoSession

(* confirm_import(file): one atomic database transaction.  An              *)
(* IntegrityError rolls the whole import back.                             *)
ConfirmImport(file, cap, log) ==
    LET r == confirm_import(file, txns, parcels)
    IN  /\ r.error \/ Len(r.txns) <= cap
        /\ txns' = IF r.error THEN txns ELSE r.txns
        /\ parcels' = IF r.error THEN parcels ELSE r.parcels
        /\ report' = IF log
                     THEN [NoReport EXCEPT !.op = "confirm_import",
                                           !.file = file,
                                           !.before = Stamp,
                                           !.error = r.error,
                                           !.row_count = r.row_count]
                     ELSE report
        /\ UNCHANGED <<matches, pc, call, proposal, outcome, idx, txnParcels,
                       txnSaved, locks, pre, fc, session>>

(* fy_summary(financial_year) called by handler p between its other calls *)
FySummary(p, financial_year) ==
    /\ pc[p] = "idle"
    /\ report' = [NoReport EXCEPT
                     !.op = "fy_summary",
                     !.before = Stamp,
                     !.summary = fy_summary(matches, txns, parcels,
                                            financial_year)]
    /\ UNCHANGED <<txns, parcels, matches, pc, call, proposal, outcome, idx,
                   txnParcels, txnSaved, locks, pre, fc, session>>

(* A match that takes what it proposes from the parcels at once: a        *)
(* variant of Match.                                                       *)
MatchThatReserves(p, sid, strategy, ps, qs, ord, log) ==
    LET r == match(parcels, sid, txns[sid], strategy, ps, qs, ord)
    IN  /\ pc[p] = "idle"
        /\ call' = [call EXCEPT ![p] =
                       IF log
                       THEN [op |-> "match", sell |-> sid,
                             strategy |-> strategy, parcels |-> ps,
                             quantities |-> qs, stamp |-> Stamp]
                       ELSE [NoCall EXCEPT !.op = "match"]]
        /\ proposal' = [proposal EXCEPT ![p] = r.matches]
        /\ outcome' = [outcome EXCEPT ![p] =
                          IF r.error THEN "MatchingError" ELSE "returned"]
        /\ parcels' =
               [i \in 1 .. Len(parcels) |->
                   [parcels[i] EXCEPT !.remaining_quantity =
                       @ - SumSeq([k \in 1 .. Len(r.matches) |->
                                     IF r.matches[k].parcel = i
                                     THEN r.matches[k].matched_quantity
                                     ELSE 0])]]
        /\ UNCHANGED <<txns, matches, pc, idx, txnParcels, txnSaved,
                       locks, pre, fc, report, session>>

(* match(sell, strategy, parcels, quantities) called by handler p; the     *)
(* manual parcels are the rows as the caller just loaded them.  With log   *)
(* the call's arguments and the database stamp are kept for inspection.    *)
Match(p, sid, strategy, ps, qs, ord, log) ==
    LET r == match(parcels, sid, txns[sid], strategy, ps, qs, ord)
    IN  /\ pc[p] = "idle"
        /\ call' = [call EXCEPT ![p] =
                       IF log
                       THEN [op |-> "match", sell |-> sid,
                             strategy |-> strategy, parcels |-> ps,
                             quantities |-> qs, stamp |-> Stamp]
                       ELSE [NoCall EXCEPT !.op = "match"]]
        /\ proposal' = [proposal EXCEPT ![p] = r.matches]
        /\ outcome' = [outcome EXCEPT ![p] =
                          IF r.error THEN "MatchingError" ELSE "returned"]
        /\ UNCHANGED <<txns, parcels, matches, pc, idx, txnParcels, txnSaved,
                       locks, pre, fc, report, session>>

(* confirm_matches(proposal[p]) enters its atomic block *)
ConfirmBegin(p) ==
    /\ pc[p] = "idle"
    /\ call[p].op = "match"
    /\ outcome[p] = "returned"
    /\ pc' = [pc EXCEPT ![p] = "confirm"]
    /\ call' = [call EXCEPT ![p].op = "confirm_matches"]
    /\ outcome' = [outcome EXCEPT ![p] = "none"]
    /\ idx' = [idx EXCEPT ![p] = 1]
    /\ pre' = [pre EXCEPT ![p] = [parcels |-> parcels, nm |-> Len(matches)]]
    /\ UNCHANGED <<txns, parcels, matches, proposal, txnParcels, txnSaved,
                   locks, fc, report, session>>

(* confirm_matches using the parcel the proposal was built from instead of *)
(* reading the row again: a variant of ReadForUpdate                       *)
ReadWithoutRefresh(p, pid) ==
    IF \E i \in 1 .. Len(txnParcels[p]) : txnParcels[p][i].pk = pid
    THEN LET i == CHOOSE i \in 1 .. Len(txnParcels[p]) :
                      txnParcels[p][i].pk = pid
         IN  txnParcels[p][i].row
    ELSE pre[p].parcels[pid]

(* A read that does not see the rows the transaction itself has written: a *)
(* variant of ReadForUpdate                                                *)
ReadCommittedRow(p, pid) == parcels[pid]

(* The parcel row handler p reads inside its transaction: its own write if *)
(* it wrote the row, otherwise the committed row.                          *)
ReadForUpdate(p, pid) ==
    IF \E i \in 1 .. Len(txnParcels[p]) : txnParcels[p][i].pk = pid
    THEN LET i == CHOOSE i \in 1 .. Len(txnParcels[p]) :
                      txnParcels[p][i].pk = pid
         IN  txnParcels[p][i].row
    ELSE parcels[pid]

(* parcel.save(update_fields=[...]) inside the transaction of p *)
WriteParcel(p, pid, row) ==
    IF \E i \in 1 .. Len(txnParcels[p]) : txnParcels[p][i].pk = pid
    THEN LET i == CHOOSE i \in 1 .. Len(txnParcels[p]) :
                      txnParcels[p][i].pk = pid
         IN  [txnParcels[p] EXCEPT ![i] = [pk |-> pid, row |-> row]]
    ELSE Append(txnParcels[p], [pk |-> pid, row |-> row])

(* The committed Parcel table after the writes ws are applied *)
ApplyWrites(tbl, ws) ==
    [i \in 1 .. Len(tbl) |->
        IF \E k \in 1 .. Len(ws) : ws[k].pk = i
        THEN LET k == CHOOSE k \in 1 .. Len(ws) : ws[k].pk = i
             IN  ws[k].row
        ELSE tbl[i]]

(* A select_for_update() that takes no row lock: a variant of CanLock     *)
(* that shows what the lock is for.                                        *)
CanLockWithoutWaiting(p, pid) == TRUE

(* A select_for_update() that locks the whole table instead of the row: a  *)
(* variant of CanLock                                                      *)
CanLockWholeTable(p, pid) == \A q \in Procs \ {p} : locks[q] = {}

(* select_for_update() waits while another transaction holds the row *)
CanLock(p, pid) == \A q \in Procs \ {p} : pid \notin locks[q]

(* The end of a block that is not atomic: a variant of Rollback that     *)
(* keeps the writes made before the exception.                             *)
RollbackKeepsWrites(p) ==
    /\ parcels' = ApplyWrites(parcels, txnParcels[p])
    /\ matches' = matches \o txnSaved[p]
    /\ txnParcels' = [txnParcels EXCEPT ![p] = <<>>]
    /\ txnSaved' = [txnSaved EXCEPT ![p] = <<>>]
    /\ locks' = [locks EXCEPT ![p] = {}]

(* The end of the atomic block when MatchingError leaves it: rollback *)
Rollback(p) ==
    /\ txnParcels' = [txnParcels EXCEPT ![p] = <<>>]
    /\ txnSaved' = [txnSaved EXCEPT ![p] = <<>>]
    /\ locks' = [locks EXCEPT ![p] = {}]
    /\ UNCHANGED <<parcels, matches>>

(* The parcel row after matched_quantity is taken from it *)
Decrement(parcel, matched_quantity) ==
    LET rem == parcel.remaining_quantity - matched_quantity
    IN  [parcel EXCEPT !.remaining_quantity = rem,
                       !.is_fully_matched = IF rem = 0 THEN TRUE ELSE @]

(* confirm_matches without its check: a variant of Oversells *)
OversellsUnchecked(match_obj, parcel) == FALSE

(* if match_obj.matched_quantity > parcel.remaining_quantity: raise *)
Oversells(match_obj, parcel) ==
    match_obj.matched_quantity > parcel.remaining_quantity

(* One iteration of the loop of confirm_matches *)
ConfirmStep(p) ==
    /\ pc[p] = "confirm"
    /\ idx[p] <= Len(proposal[p])
    /\ LET match_obj == proposal[p][idx[p]]
           pid == match_obj.parcel
           parcel == ReadForUpdate(p, pid)
       IN  /\ CanLock(p, pid)
           /\ IF Oversells(match_obj, parcel)
              THEN /\ Rollback(p)
                   /\ pc' = [pc EXCEPT ![p] = "idle"]
                   /\ outcome' = [outcome EXCEPT ![p] = "MatchingError"]
                   /\ proposal' = [proposal EXCEPT ![p] = <<>>]
                   /\ idx' = [idx EXCEPT ![p] = 0]
                   /\ call' = [call EXCEPT ![p] = Finished]
                   /\ pre' = [pre EXCEPT ![p] = NoPre]
              ELSE /\ txnParcels' =
                          [txnParcels EXCEPT ![p] =
                              WriteParcel(p, pid,
                                  Decrement(parcel, match_obj.matched_quantity))]
                   /\ txnSaved' = [txnSaved EXCEPT ![p] =
                                      Append(@, SaveMatch(match_obj))]
                   /\ locks' = [locks EXCEPT ![p] = @ \cup {pid}]
                   /\ idx' = [idx EXCEPT ![p] = @ + 1]
                   /\ UNCHANGED <<parcels, matches, pc, outcome, proposal,
                                  call, pre>>
    /\ UNCHANGED <<txns, fc, report, session>>

(* confirm_matches returns: the atomic block commits *)
ConfirmCommit(p) ==
    /\ pc[p] = "confirm"
    /\ idx[p] > Len(proposal[p])
    /\ parcels' = ApplyWrites(parcels, txnParcels[p])
    /\ matches' = matches \o txnSaved[p]
    /\ txnParcels' = [txnParcels EXCEPT ![p] = <<>>]
    /\ txnSaved' = [txnSaved EXCEPT ![p] = <<>>]
    /\ locks' = [locks EXCEPT ![p] = {}]
    /\ pc' = [pc EXCEPT ![p] = "idle"]
    /\ outcome' = [outcome EXCEPT ![p] = "saved"]
    /\ proposal' = [proposal EXCEPT ![p] = <<>>]
    /\ idx' = [idx EXCEPT ![p] = 0]
    /\ call' = [call EXCEPT ![p] = Finished]
    /\ pre' = [pre EXCEPT ![p] = NoPre]
    /\ UNCHANGED <<txns, fc, report, session>>

----------------------------------------------------------------------------
(* forecast(): the steps of a handler, one per database query *)

ForecastFails(p) ==
    /\ pc' = [pc EXCEPT ![p] = "idle"]
    /\ outcome' = [outcome EXCEPT ![p] = "ForecastError"]

(* The checks of the arguments and base_qs.exists() *)
ForecastBegin(p, security, quantity, sell_price, sell_date) ==
    /\ pc[p] = "idle"
    /\ call' = [call EXCEPT ![p] = [NoCall EXCEPT !.op = "forecast"]]
    /\ proposal' = [proposal EXCEPT ![p] = <<>>]
    /\ fc' = [fc EXCEPT ![p] =
                 [NoForecast EXCEPT !.op = "forecast",
                                    !.security = security,
                                    !.quantity = quantity,
                                    !.sell_price = sell_price,
                                    !.sell_date = sell_date,
                                    !.stamps = {Stamp}]]
    /\ IF quantity <= 0 \/ sell_price <= 0
          \/ AvailableParcels(parcels, security) = {}
       THEN ForecastFails(p)
       ELSE /\ pc' = [pc EXCEPT ![p] = "fc_sum"]
            /\ outcome' = [outcome EXCEPT ![p] = "none"]
    /\ UNCHANGED <<txns, parcels, matches, idx, txnParcels, txnSaved, locks,
                   pre, report, session>>

(* The parcels' remaining quantities of security sec, added up *)
TotalAvailable(tbl, sec) ==
    LET S == AvailableParcels(tbl, sec)
        o == CHOOSE o \in Perms(S) : TRUE
    IN  SumSeq([i \in 1 .. Len(o) |-> tbl[o[i]].remaining_quantity])

(* forecast raising also when the lots hold exactly what is asked for *)
ForecastSumNeedsSpare(p) ==
    /\ pc[p] = "fc_sum"
    /\ IF TotalAvailable(parcels, fc[p].security) <= fc[p].quantity
       THEN ForecastFails(p)
       ELSE /\ pc' = [pc EXCEPT ![p] = "fc_fifo"]
            /\ UNCHANGED outcome
    /\ fc' = [fc EXCEPT ![p].stamps = @ \cup {Stamp}]
    /\ UNCHANGED <<txns, parcels, matches, call, proposal, idx, txnParcels,
                   txnSaved, locks, pre, report, session>>

(* total_available = sum(p.remaining_quantity for p in base_qs) *)
ForecastSum(p) ==
    /\ pc[p] = "fc_sum"
    /\ IF TotalAvailable(parcels, fc[p].security) < fc[p].quantity
       THEN ForecastFails(p)
       ELSE /\ pc' = [pc EXCEPT ![p] = "fc_fifo"]
            /\ UNCHANGED outcome
    /\ fc' = [fc EXCEPT ![p].stamps = @ \cup {Stamp}]
    /\ UNCHANGED <<txns, parcels, matches, call, proposal, idx, txnParcels,
                   txnSaved, locks, pre, report, session>>

(* One strategy of forecast(): list(base_qs.order_by(...)) in the order    *)
(* ord the database returned, then _simulate_strategy.                     *)
ForecastStrategy(p, at, next, ord) ==
    /\ pc[p] = at
    /\ LET r == SimulateStrategy(parcels, ord, fc[p].security, fc[p].quantity,
                                 fc[p].sell_price, fc[p].sell_date)
       IN  fc' = [fc EXCEPT ![p] =
                     [@ EXCEPT !.stamps = @ \cup {Stamp},
                               !.fifo = IF at = "fc_fifo" THEN r ELSE @,
                               !.lifo = IF at = "fc_lifo" THEN r ELSE @,
                               !.optimal = IF at = "fc_optimal" THEN r ELSE @]]
    /\ pc' = [pc EXCEPT ![p] = next]
    /\ outcome' = [outcome EXCEPT ![p] =
                      IF next = "idle" THEN "returned" ELSE @]
    /\ UNCHANGED <<txns, parcels, matches, call, proposal, idx, txnParcels,
                   txnSaved, locks, pre, report, session>>

ForecastFifo(p) ==
    \E ord \in OrderByDateAsc(parcels,
                              AvailableParcels(parcels, fc[p].security)) :
        ForecastStrategy(p, "fc_fifo", "fc_lifo", ord)

ForecastLifo(p) ==
    \E ord \in OrderByDateDesc(parcels,
                               AvailableParcels(parcels, fc[p].security)) :
        ForecastStrategy(p, "fc_lifo", "fc_optimal", ord)

ForecastOptimal(p) ==
    \E ord \in OrderByCostDesc(parcels,
                               AvailableParcels(parcels, fc[p].security)) :
        ForecastStrategy(p, "fc_optimal", "idle", ord)

----------------------------------------------------------------------------
(* Inputs of the service calls *)

(* A handler calls match when it holds no result of match: a call that   *)
(* follows another one without a confirm_matches in between leaves the     *)
(* state the later call alone leaves.                                      *)
MayCallMatch(p) == call[p].op # "match"

(* match(sell, "fifo" | "lifo") on any transaction of the table *)
MatchAutoCall(p, log) ==
    /\ MayCallMatch(p)
    /\ \E sid \in 1 .. Len(txns), strategy \in {"fifo", "lifo"} :
        \E ord \in AutoOrders(parcels, txns[sid].security, strategy) :
            Match(p, sid, strategy, <<>>, <<>>, ord, log)

(* match(sell, "manual", parcels, quantities) with lists of the lengths    *)
(* <<n, m>> in shapes and quantities from qtys                             *)
MatchManualCall(p, shapes, qtys, log) ==
    /\ MayCallMatch(p)
    /\ \E sid \in 1 .. Len(txns), shape \in shapes :
        \E ps \in [1 .. shape[1] -> 1 .. Len(parcels)],
           qs \in [1 .. shape[2] -> qtys] :
            Match(p, sid, "manual", ps, qs, <<>>, log)

(* Both lists of the same length, 1 .. MaxPairs *)
EqualShapes == {<<n, n>> : n \in 1 .. MaxPairs}

(* Any two lists of length 0 .. MaxPairs *)
AllShapes == (0 .. MaxPairs) \X (0 .. MaxPairs)

(* match(sell, strategy) with a strategy match does not know *)
MatchUnknownCall(p, log) ==
    /\ MayCallMatch(p)
    /\ \E sid \in 1 .. Len(txns) :
        Match(p, sid, "optimal", <<>>, <<>>, <<>>, log)

----------------------------------------------------------------------------
(* Spec: the services called one at a time on a database that starts       *)
(* empty.                                                                  *)

(* The one handler of the specifications without concurrency *)
Handler == CHOOSE p \in Procs : \A q \in Procs : p <= q

SpecRows ==
    RowSet({"BUY"}, {1}, {1}, Quantities, {1}, {0}, {1})
        \cup RowSet({"SELL"}, {1}, {2}, {1, MaxQty}, {2}, {0}, {1})

Import ==
    /\ pc[Handler] = "idle"
    /\ \E r \in SpecRows : ConfirmImport(<<r>>, MaxTxns, FALSE)

AutoMatch == MatchAutoCall(Handler, FALSE)

ManualMatch == MatchManualCall(Handler, EqualShapes, {1, MaxQty}, FALSE)

UnknownMatch == MatchUnknownCall(Handler, FALSE)

Begin == ConfirmBegin(Handler)

Step == ConfirmStep(Handler)

Commit == ConfirmCommit(Handler)

Next ==
    \/ Import
    \/ AutoMatch
    \/ ManualMatch
    \/ UnknownMatch
    \/ Begin
    \/ Step
    \/ Commit

Spec == Init /\ [][Next]_vars

----------------------------------------------------------------------------
(* SpecConc: two concurrent handlers on a database that starts empty.      *)

ConcRows ==
    RowSet({"BUY"}, {1}, {1, 2}, {1, 2}, {1}, {0}, {1})
        \cup RowSet({"SELL"}, {1}, {2}, {1, 2}, {1}, {0}, {1})

ConcImport == \E r \in ConcRows : ConfirmImport(<<r>>, FewTxns, FALSE)

ConcAutoMatch == \E p \in Procs : MatchAutoCall(p, FALSE)

ConcManualMatch ==
    \E p \in Procs : MatchManualCall(p, {<<2, 2>>}, {1}, FALSE)

ConcBegin == \E p \in Procs : ConfirmBegin(p)

ConcStep == \E p \in Procs : ConfirmStep(p)

ConcCommit == \E p \in Procs : ConfirmCommit(p)

NextConc ==
    \/ ConcImport
    \/ ConcAutoMatch
    \/ ConcManualMatch
    \/ ConcBegin
    \/ ConcStep
    \/ ConcCommit

SpecConc == Init /\ [][NextConc]_vars

----------------------------------------------------------------------------
(* SpecAuto: match with fifo and lifo, its arguments and the database it   *)
(* read kept for inspection, on databases built by imports and confirmed   *)
(* matches.                                                                *)

AutoRows ==
    RowSet({"BUY"}, {1}, {1, 2}, {1, MaxQty}, {1}, {0}, {1})
        \cup RowSet({"BUY"}, {2}, {1}, {MaxQty}, {1}, {0}, {1})
        \cup RowSet({"SELL"}, {1}, {3}, {1, MaxQty, MaxQty + 1}, {2}, {0}, {1})

AutoImport ==
    /\ pc[Handler] = "idle"
    /\ \E r \in AutoRows : ConfirmImport(<<r>>, MaxTxns, FALSE)

AutoMatchLogged == MatchAutoCall(Handler, TRUE)

NextAuto ==
    \/ AutoImport
    \/ AutoMatchLogged
    \/ Begin
    \/ Step
    \/ Commit

SpecAuto == Init /\ [][NextAuto]_vars

----------------------------------------------------------------------------
(* SpecManual: match with manual lists of every shape, its arguments and   *)
(* the database it read kept for inspection.                               *)

ManualRows ==
    RowSet({"BUY"}, {1, 2}, {1}, {MaxQty}, {1}, {0}, {1})
        \cup RowSet({"SELL"}, {1}, {2}, {1, MaxQty}, {2}, {0}, {1})

ManualImport ==
    /\ pc[Handler] = "idle"
    /\ \E r \in ManualRows : ConfirmImport(<<r>>, MaxTxns, FALSE)

ManualMatchLogged ==
    \/ MatchManualCall(Handler, EqualShapes, {-1, 0, 1, MaxQty}, TRUE)
    \/ MatchManualCall(Handler, AllShapes \ EqualShapes, {1}, TRUE)

NextManual ==
    \/ ManualImport
    \/ ManualMatchLogged
    \/ Begin
    \/ Step
    \/ Commit

SpecManual == Init /\ [][NextManual]_vars

----------------------------------------------------------------------------
(* SpecForecast: a forecast, then match and confirm_matches, with the      *)
(* forecast's report and the arguments of match kept for inspection.       *)

(* A trade date more than DiscountDays after every acquisition date *)
SellDate == DiscountDays + 35

ForecastRows ==
    RowSet({"BUY"}, {1}, {1, 2}, {1, 3}, {1}, {1}, {1})
        \cup RowSet({"SELL"}, {1}, {SellDate}, {1, MaxQty}, {2}, {0}, {1})

(* Rows are imported before the forecast is made *)
ForecastImport ==
    /\ pc[Handler] = "idle"
    /\ fc[Handler].op = "none"
    /\ \E r \in ForecastRows : ConfirmImport(<<r>>, FewTxns, FALSE)

(* The arguments of forecast: <<security, quantity, sell_price>> *)
ForecastInputs ==
    ({1} \X {1, MaxQty} \X {2})
        \cup {<<1, 0, 2>>, <<1, 1, 0>>, <<2, 1, 2>>, <<1, -1, 2>>, <<1, 1, -1>>}

(* The handler's one call of forecast *)
Forecast ==
    /\ fc[Handler].op = "none"
    /\ call[Handler].op # "match"
    /\ \E in \in ForecastInputs :
           ForecastBegin(Handler, in[1], in[2], in[3], SellDate)

ForecastMatch == MatchAutoCall(Handler, TRUE)

(* match with manual lists or an unknown strategy, next to a forecast *)
ForecastOtherMatch ==
    \/ MatchManualCall(Handler, EqualShapes, {1}, FALSE)
    \/ MatchUnknownCall(Handler, FALSE)

ForecastSteps ==
    \/ ForecastSum(Handler)
    \/ ForecastFifo(Handler)
    \/ ForecastLifo(Handler)
    \/ ForecastOptimal(Handler)

NextForecast ==
    \/ ForecastImport
    \/ Forecast
    \/ ForecastSteps
    \/ ForecastMatch
    \/ ForecastOtherMatch
    \/ Begin
    \/ Step
    \/ Commit

SpecForecast == Init /\ [][NextForecast]_vars

----------------------------------------------------------------------------
(* SpecCgt: calculate_cgt on slices held for exactly 365 and 366 days,     *)
(* sold above, at and below their cost, with a sale in a foreign currency  *)
(* and a brokerage on the sale.                                            *)

CgtRows ==
    RowSet({"BUY"}, {1}, {1}, {MaxQty}, {1, 2, 3}, {0}, {1})
        \cup RowSet({"SELL"}, {1}, {DiscountDays + 1, DiscountDays + 2},
                    {1, MaxQty}, {2}, {1}, {1, 2})

CgtImport ==
    /\ pc[Handler] = "idle"
    /\ \E r \in CgtRows : ConfirmImport(<<r>>, MaxTxns, FALSE)

CgtMatch == MatchAutoCall(Handler, TRUE)

NextCgt ==
    \/ CgtImport
    \/ CgtMatch

SpecCgt == Init /\ [][NextCgt]_vars

----------------------------------------------------------------------------
(* SpecFy: sales of two securities on the last day of a financial year and *)
(* on the first day of the next, at a gain and at a loss, matched,         *)
(* confirmed and reported by fy_summary.                                   *)

FyBuy(security) ==
    CHOOSE r \in RowSet({"BUY"}, {security}, {Date(2024, 6, 1)}, {MaxQty},
                        {2}, {0}, {1}) : TRUE

FySells ==
    RowSet({"SELL"}, {1}, {Date(2025, 6, 30)}, {1}, {1, 3}, {0}, {1})
        \cup RowSet({"SELL"}, {1}, {Date(2025, 7, 1)}, {1}, {3}, {0}, {1})
        \cup RowSet({"SELL"}, {2}, {Date(2025, 6, 30)}, {1}, {3}, {0}, {1})

(* The files imported: one with the purchases of both securities, one per  *)
(* sale                                                                    *)
FyFiles == {<<FyBuy(1), FyBuy(2)>>} \cup {<<r>> : r \in FySells}

(* The purchases are imported first, every file before the first report   *)
(* is made                                                                 *)
FyImport ==
    /\ pc[Handler] = "idle"
    /\ report.op = "none"
    /\ \E file \in FyFiles :
           /\ txns = <<>> <=> Len(file) > 1
           /\ ConfirmImport(file, MaxTxns + 1, FALSE)

(* Matches are proposed and confirmed before the first report is made *)
FyMatch == report.op = "none" /\ MatchAutoCall(Handler, FALSE)

FyConfirm ==
    /\ report.op = "none"
    /\ \/ ConfirmBegin(Handler)
       \/ ConfirmStep(Handler)
       \/ ConfirmCommit(Handler)

(* The financial years asked for *)
FyYears == {2025, 2026}

FyReport == \E y \in FyYears : FySummary(Handler, y)

NextFy ==
    \/ FyImport
    \/ FyMatch
    \/ FyConfirm
    \/ FyReport

SpecFy == Init /\ [][NextFy]_vars

----------------------------------------------------------------------------
(* SpecOptimal: forecast over lots bought cheaply long ago and dearly      *)
(* within the year, sold above and below their cost.                       *)

OptimalRows ==
    RowSet({"BUY"}, {1}, {1, SellDate - 100}, {1, MaxQty}, {1, 2}, {0}, {1})

(* Rows are imported before the forecast is made *)
OptimalImport ==
    /\ pc[Handler] = "idle"
    /\ fc[Handler].op = "none"
    /\ \E r \in OptimalRows : ConfirmImport(<<r>>, FewTxns, FALSE)

(* The handler's one call of forecast, for a price above or below cost *)
OptimalForecast ==
    /\ fc[Handler].op = "none"
    /\ \E quantity \in {1, MaxQty}, sell_price \in {1, 4} :
           ForecastBegin(Handler, 1, quantity, sell_price, SellDate)

NextOptimal ==
    \/ OptimalImport
    \/ OptimalForecast
    \/ ForecastSteps

SpecOptimal == Init /\ [][NextOptimal]_vars

----------------------------------------------------------------------------
(* SpecImport: files of one or two rows, also with the same row twice and  *)
(* imported again, next to matching.                                       *)

ImportedRows ==
    RowSet({"BUY"}, {1}, {1}, {1, MaxQty}, {1}, {0}, {1})
        \cup RowSet({"BUY"}, {2}, {1}, {1}, {1}, {0}, {1})
        \cup RowSet({"SELL"}, {1}, {2}, {1}, {2}, {0}, {1})

(* Files of one row, of the same row twice, and of a BUY and a SELL *)
ImportedFiles ==
    {<<r>> : r \in ImportedRows}
        \cup {<<r, r>> : r \in ImportedRows}
        \cup {<<r1, r2>> : r1 \in {r \in ImportedRows : r.security = 1},
                           r2 \in {r \in ImportedRows :
                                      r.transaction_type = "SELL"}}

ImportFile ==
    /\ pc[Handler] = "idle"
    /\ \E file \in ImportedFiles : ConfirmImport(file, MaxTxns, TRUE)

ImportMatch == MatchAutoCall(Handler, FALSE)

NextImport ==
    \/ ImportFile
    \/ ImportMatch
    \/ Begin
    \/ Step
    \/ Commit

SpecImport == Init /\ [][NextImport]_vars

----------------------------------------------------------------------------
(* SpecRace: two concurrent handlers on a database filled by one import:   *)
(* one parcel and two sales of it, or two parcels of different dates and   *)
(* one sale.                                                               *)

RaceBuy(trade_date, quantity) ==
    CHOOSE r \in RowSet({"BUY"}, {1}, {trade_date}, {quantity}, {1}, {0},
                        {1}) : TRUE

RaceSell(quantity) ==
    CHOOSE r \in RowSet({"SELL"}, {1}, {3}, {quantity}, {2}, {0}, {1}) : TRUE

RaceFiles ==
    {<<RaceBuy(1, MaxQty), RaceSell(MaxQty), RaceSell(1)>>}
        \cup {<<RaceBuy(1, q1), RaceBuy(2, q2), RaceSell(q3)>> :
                 q1 \in {1, MaxQty}, q2 \in {1, MaxQty}, q3 \in {1, MaxQty}}

RaceImport ==
    /\ txns = <<>>
    /\ \E file \in RaceFiles : ConfirmImport(file, MaxTxns, FALSE)

RaceAutoMatch == \E p \in Procs : MatchAutoCall(p, FALSE)

RaceManualMatch ==
    \E p \in Procs : MatchManualCall(p, {<<2, 2>>}, {1}, FALSE)

NextRace ==
    \/ RaceImport
    \/ RaceAutoMatch
    \/ RaceManualMatch
    \/ ConcBegin
    \/ ConcStep
    \/ ConcCommit

SpecRace == Init /\ [][NextRace]_vars

----------------------------------------------------------------------------
(* SpecTies: two handlers call match(fifo | lifo) on lots of one security  *)
(* bought on the same day.                                                 *)

TiesBuy(quantity) ==
    CHOOSE r \in RowSet({"BUY"}, {1}, {1}, {quantity}, {1}, {0}, {1}) : TRUE

TiesFiles ==
    {<<TiesBuy(q1), TiesBuy(q2), RaceSell(q3)>> :
        q1 \in {1, MaxQty}, q2 \in {1, MaxQty}, q3 \in {1, MaxQty}}

TiesImport ==
    /\ txns = <<>>
    /\ \E file \in TiesFiles : ConfirmImport(file, MaxTxns, FALSE)

TiesMatch == \E p \in Procs : MatchAutoCall(p, TRUE)

NextTies ==
    \/ TiesImport
    \/ TiesMatch
    \/ ConcBegin
    \/ ConcStep
    \/ ConcCommit

SpecTies == Init /\ [][NextTies]_vars

----------------------------------------------------------------------------
(* SpecDeadlock: SpecRace with the database's answer to a cycle of row     *)
(* locks, and with handlers that run on whenever they are not waiting.     *)

(* Handler p is inside select_for_update().get() on a row another          *)
(* transaction has locked                                                  *)
Waits(p) ==
    /\ pc[p] = "confirm"
    /\ idx[p] <= Len(proposal[p])
    /\ ~CanLock(p, proposal[p][idx[p]].parcel)

(* p waits for a row of q while q waits for a row of p *)
Deadlocked(p, q) ==
    /\ Waits(p)
    /\ Waits(q)
    /\ proposal[p][idx[p]].parcel \in locks[q]
    /\ proposal[q][idx[q]].parcel \in locks[p]

(* A database that detects the cycle ends one of the two transactions: the *)
(* query raises django.db.OperationalError, which leaves the atomic block  *)
(* and rolls it back.  A database that does not detect it leaves both      *)
(* waiting.                                                                *)
DeadlockAbort(p) ==
    /\ \E q \in Procs \ {p} : Deadlocked(p, q)
    /\ Rollback(p)
    /\ pc' = [pc EXCEPT ![p] = "idle"]
    /\ outcome' = [outcome EXCEPT ![p] = "OperationalError"]
    /\ proposal' = [proposal EXCEPT ![p] = <<>>]
    /\ idx' = [idx EXCEPT ![p] = 0]
    /\ call' = [call EXCEPT ![p] = Finished]
    /\ pre' = [pre EXCEPT ![p] = NoPre]
    /\ UNCHANGED <<txns, fc, report, session>>

RaceDeadlock == \E p \in Procs : DeadlockAbort(p)

NextDeadlock ==
    \/ RaceImport
    \/ RaceAutoMatch
    \/ RaceManualMatch
    \/ ConcBegin
    \/ ConcStep
    \/ ConcCommit
    \/ RaceDeadlock

(* A handler inside confirm_matches takes its next row whenever the row is *)
(* free again and again, and commits when its loop is over.                *)
SpecDeadlock ==
    /\ Init
    /\ [][NextDeadlock]_vars
    /\ \A p \in Procs : SF_vars(ConfirmStep(p)) /\ WF_vars(ConfirmCommit(p))

----------------------------------------------------------------------------
(* SpecForecastRace: one handler runs forecast, query by query, while the  *)
(* handlers match and commit sales of the same security.                   *)

ForecastRaceFiles ==
    {<<RaceBuy(1, q1), RaceBuy(2, q2), RaceSell(q3)>> :
        q1 \in {1, MaxQty}, q2 \in {1, MaxQty}, q3 \in {1, MaxQty}}

ForecastRaceImport ==
    /\ txns = <<>>
    /\ \E file \in ForecastRaceFiles : ConfirmImport(file, MaxTxns, FALSE)

(* forecast(security 1, quantity, price 2, SellDate), once *)
ForecastRaceCall ==
    /\ fc[Handler].op = "none"
    /\ call[Handler].op # "match"
    /\ \E quantity \in {1, MaxQty} :
           ForecastBegin(Handler, 1, quantity, 2, SellDate)

(* The handler that commits while Handler forecasts *)
Committer == CHOOSE p \in Procs : p # Handler

ForecastRaceMatch == MatchAutoCall(Committer, FALSE)

ForecastRaceConfirm ==
    \/ ConfirmBegin(Committer)
    \/ ConfirmStep(Committer)
    \/ ConfirmCommit(Committer)

NextForecastRace ==
    \/ ForecastRaceImport
    \/ ForecastRaceCall
    \/ ForecastSteps
    \/ ForecastRaceMatch
    \/ ForecastRaceConfirm

SpecForecastRace == Init /\ [][NextForecastRace]_vars

----------------------------------------------------------------------------
(* The matching views: a preview stores its proposal in the session, and   *)
(* confirm_match pops it, rebuilds the list and commits it.  A request     *)
(* works on its own copy of the session data, loaded when the view first   *)
(* touches request.session and written back with the response.             *)

MaxPreviews == 2

(* str(m.matched_quantity) writes every digit of the Decimal *)
Str(matched_quantity) == [text |-> matched_quantity]

(* Decimal(item["matched_quantity"]) reads them back *)
DecimalOf(s) == s.text

(* The list a preview stores under pending_matches_<sell_id> *)
PendingOf(ms) ==
    [k \in 1 .. Len(ms) |->
        [parcel_id |-> ms[k].parcel,
         matched_quantity |-> Str(ms[k].matched_quantity)]]

(* session data with key sid set to v, and with key sid removed *)
WithKey(data, sid, v) ==
    [k \in DOMAIN data \cup {sid} |-> IF k = sid THEN v ELSE data[k]]

WithoutKey(data, sid) == [k \in DOMAIN data \ {sid} |-> data[k]]

(* Identifies the session's history: previews stored, proposals used *)
SessionStamp == <<session.serial, Len(session.used)>>

(* auto_match: match(sell, strategy) and, when it returns, the proposal    *)
(* stored in the session.  The request is one step: it reads the parcels   *)
(* once and nothing of it waits.                                           *)
AutoMatchView(p, sid, strategy, ord) ==
    LET r == match(parcels, sid, txns[sid], strategy, <<>>, <<>>, ord)
    IN  /\ pc[p] = "idle"
        /\ ~session.local[p].loaded
        /\ session.serial < MaxPreviews
        /\ call' = [call EXCEPT ![p] =
                       [NoCall EXCEPT !.op = "auto_match", !.sell = sid,
                                      !.strategy = strategy]]
        /\ outcome' = [outcome EXCEPT ![p] =
                          IF r.error THEN "MatchingError" ELSE "returned"]
        /\ session' =
               IF r.error
               THEN session
               ELSE [session EXCEPT
                        !.store = WithKey(@, sid,
                                      [id |-> session.serial + 1,
                                       items |-> PendingOf(r.matches)]),
                        !.serial = @ + 1]
        /\ UNCHANGED <<txns, parcels, matches, pc, proposal, idx, txnParcels,
                       txnSaved, locks, pre, fc, report>>

(* confirm_match up to the call of confirm_matches: the pop, the rebuilt   *)
(* lists and match(sell, "manual", ...).  Without a pending proposal, or   *)
(* when match raises, the request ends here and its session is saved.      *)
ConfirmMatchView(p, sid) ==
    LET data == session.store
        found == sid \in DOMAIN data
        pending == IF found THEN data[sid].items ELSE <<>>
        parcels_list == [k \in 1 .. Len(pending) |-> pending[k].parcel_id]
        quantities_list ==
            [k \in 1 .. Len(pending) |->
                DecimalOf(pending[k].matched_quantity)]
        r == match(parcels, sid, txns[sid], "manual", parcels_list,
                   quantities_list, <<>>)
    IN  /\ pc[p] = "idle"
        /\ ~session.local[p].loaded
        /\ IF pending = <<>>
           THEN /\ call' = [call EXCEPT ![p] =
                               [NoCall EXCEPT !.op = "confirm_match",
                                              !.sell = sid,
                                              !.stamp = SessionStamp]]
                /\ outcome' = [outcome EXCEPT ![p] = "NoPending"]
                /\ session' = [session EXCEPT !.store = WithoutKey(@, sid)]
                /\ UNCHANGED <<pc, proposal, idx, pre>>
           ELSE IF r.error
           THEN /\ call' = [call EXCEPT ![p] =
                               [NoCall EXCEPT !.op = "confirm_match",
                                              !.sell = sid,
                                              !.stamp = SessionStamp]]
                /\ outcome' = [outcome EXCEPT ![p] = "MatchingError"]
                /\ session' = [session EXCEPT
                                  !.store = WithoutKey(@, sid),
                                  !.used = Append(@, data[sid].id)]
                /\ UNCHANGED <<pc, proposal, idx, pre>>
           ELSE /\ call' = [call EXCEPT ![p] =
                               [NoCall EXCEPT !.op = "confirm_matches",
                                              !.sell = sid]]
                /\ outcome' = [outcome EXCEPT ![p] = "none"]
                /\ pc' = [pc EXCEPT ![p] = "confirm"]
                /\ proposal' = [proposal EXCEPT ![p] = r.matches]
                /\ idx' = [idx EXCEPT ![p] = 1]
                /\ pre' = [pre EXCEPT ![p] =
                              [parcels |-> parcels, nm |-> Len(matches)]]
                /\ session' = [session EXCEPT
                                  !.local[p] =
                                      [loaded |-> TRUE,
                                       data |-> WithoutKey(data, sid)],
                                  !.used = Append(@, data[sid].id)]
        /\ UNCHANGED <<txns, parcels, matches, txnParcels, txnSaved, locks,
                       fc, report>>

(* The response of confirm_match after confirm_matches returned or raised: *)
(* the session middleware saves the request's session data.                *)
ConfirmMatchRespond(p) ==
    /\ pc[p] = "idle"
    /\ session.local[p].loaded
    /\ session' = [session EXCEPT !.store = session.local[p].data,
                                  !.local[p] = NotLoaded]
    /\ UNCHANGED <<txns, parcels, matches, pc, call, proposal, outcome, idx,
                   txnParcels, txnSaved, locks, pre, fc, report>>

(* SpecViews: two requests of one browser session at a time, on a database *)
(* filled by one import.                                                   *)
ViewsImport ==
    /\ txns = <<>>
    /\ \E file \in RaceFiles : ConfirmImport(file, MaxTxns, FALSE)

ViewsPreview ==
    \E p \in Procs : \E sid \in 1 .. Len(txns) :
        \E strategy \in {"fifo", "lifo"} :
            \E ord \in AutoOrders(parcels, txns[sid].security, strategy) :
                AutoMatchView(p, sid, strategy, ord)

ViewsConfirm ==
    \E p \in Procs : \E sid \in 1 .. Len(txns) : ConfirmMatchView(p, sid)

ViewsRespond == \E p \in Procs : ConfirmMatchRespond(p)

NextViews ==
    \/ ViewsImport
    \/ ViewsPreview
    \/ ViewsConfirm
    \/ ConcStep
    \/ ConcCommit
    \/ ViewsRespond

SpecViews == Init /\ [][NextViews]_vars

----------------------------------------------------------------------------
(* SpecCost: one purchase with and without brokerage, of a quantity that   *)
(* divides its cost and of one that does not, sold in one or two sales.    *)

CostBuys ==
    RowSet({"BUY"}, {1}, {1}, {MaxQty, MaxQty + 1}, {1}, {0, 1}, {1})

CostSells ==
    RowSet({"SELL"}, {1}, {2}, {1, MaxQty, MaxQty + 1}, {2}, {0}, {1})

CostFiles ==
    {<<b, s>> : b \in CostBuys, s \in CostSells}
        \cup {<<b, s1, s2>> : b \in CostBuys,
                              s1 \in {s \in CostSells : s.quantity = 1},
                              s2 \in {s \in CostSells : s.quantity > 1}}

CostImport ==
    /\ txns = <<>>
    /\ \E file \in CostFiles : ConfirmImport(file, MaxTxns, FALSE)

CostMatch == MatchAutoCall(Handler, FALSE)

NextCost ==
    \/ CostImport
    \/ CostMatch
    \/ Begin
    \/ Step
    \/ Commit

SpecCost == Init /\ [][NextCost]_vars

----------------------------------------------------------------------------
(* Properties *)

(* The matched quantity the records of ms take from parcel pid *)
MatchedOn(ms, pid) ==
    SumSeq([k \in 1 .. Len(ms) |->
               IF ms[k].parcel = pid THEN ms[k].matched_quantity ELSE 0])

(* The matched quantity the records of ms give to transaction sid *)
MatchedFor(ms, sid) ==
    SumSeq([k \in 1 .. Len(ms) |->
               IF ms[k].sell_transaction = sid
               THEN ms[k].matched_quantity ELSE 0])

(* The ParcelMatch rows committed since row number nm *)
MatchesSince(nm) == SubSeq(matches, nm + 1, Len(matches))

(* C1: while confirm_matches calls run concurrently, no parcel row,        *)
(* committed or written inside a transaction, has a negative remaining     *)
(* quantity; and for every call in progress and every parcel, what has     *)
(* been committed against the parcel since the call started plus what the  *)
(* call itself has saved against it is at most the remaining quantity the  *)
(* parcel had when the call started.                                       *)
ConcurrentConfirmNeverOversells ==
    /\ \A i \in 1 .. Len(parcels) : parcels[i].remaining_quantity >= 0
    /\ \A p \in Procs : \A k \in 1 .. Len(txnParcels[p]) :
           txnParcels[p][k].row.remaining_quantity >= 0
    /\ \A p \in Procs :
           pc[p] = "confirm" =>
               \A i \in 1 .. Len(pre[p].parcels) :
                   MatchedOn(MatchesSince(pre[p].nm), i)
                       + MatchedOn(txnSaved[p], i)
                     <= pre[p].parcels[i].remaining_quantity

(* C1 witness: a confirm_matches call is still in progress after another   *)
(* one, started on the same parcel, has committed a match that used the    *)
(* parcel up; the call in progress reads the parcel next.                  *)
ConcurrentConfirmSameParcel ==
    \E p \in Procs :
        /\ pc[p] = "confirm"
        /\ idx[p] <= Len(proposal[p])
        /\ LET pid == proposal[p][idx[p]].parcel
           IN  /\ MatchedOn(MatchesSince(pre[p].nm), pid) > 0
               /\ pre[p].parcels[pid].remaining_quantity > 0
               /\ parcels[pid].remaining_quantity = 0

(* C2: every committed parcel keeps 0 <= remaining_quantity <=             *)
(* original_quantity, and so does every row written in a transaction.      *)
RemainingWithinOriginal ==
    /\ \A i \in 1 .. Len(parcels) :
           /\ 0 <= parcels[i].remaining_quantity
           /\ parcels[i].remaining_quantity <= parcels[i].original_quantity
    /\ \A p \in Procs : \A k \in 1 .. Len(txnParcels[p]) :
           /\ 0 <= txnParcels[p][k].row.remaining_quantity
           /\ txnParcels[p][k].row.remaining_quantity
                <= txnParcels[p][k].row.original_quantity

(* C2 witness: confirm_matches has committed and left a parcel partly      *)
(* used, next to a proposal that asks for more than the parcel has left.   *)
PartlyUsedParcelCommitted ==
    \E i \in 1 .. Len(parcels) :
        /\ 0 < parcels[i].remaining_quantity
        /\ parcels[i].remaining_quantity < parcels[i].original_quantity
        /\ MatchedOn(matches, i) > 0
        /\ pc[Handler] = "confirm"
        /\ MatchedOn(proposal[Handler], i) > parcels[i].remaining_quantity

(* C3 as stated: is_fully_matched is true exactly when remaining_quantity  *)
(* is 0, for every parcel in the table.                                    *)
FullyMatchedIffNothingRemains ==
    \A i \in 1 .. Len(parcels) :
        parcels[i].is_fully_matched <=> parcels[i].remaining_quantity = 0

(* C4 as stated: for every SELL the matched quantities of its persisted    *)
(* ParcelMatch rows add up to at most the SELL's quantity.                 *)
SellNeverOvermatched ==
    \A sid \in 1 .. Len(txns) :
        txns[sid].transaction_type = "SELL" =>
            MatchedFor(matches, sid) <= txns[sid].quantity

(* C5: a confirm_matches call that raises MatchingError leaves the Parcel  *)
(* table as it was when the call started and adds no ParcelMatch row.      *)
ConfirmAllOrNothing ==
    [][\A p \in Procs :
          (pc[p] = "confirm" /\ outcome'[p] = "MatchingError") =>
              /\ parcels' = pre[p].parcels
              /\ matches' = matches
              /\ Len(matches') = pre[p].nm]_vars

(* C5 witness: confirm_matches has decremented a parcel for an earlier     *)
(* allocation of the list and the allocation it reads next asks for more   *)
(* than the parcel has left.                                               *)
ConfirmFailsAfterDecrement ==
    /\ pc[Handler] = "confirm"
    /\ idx[Handler] > 1
    /\ idx[Handler] <= Len(proposal[Handler])
    /\ Len(txnSaved[Handler]) > 0
    /\ Oversells(proposal[Handler][idx[Handler]],
                 ReadForUpdate(Handler, proposal[Handler][idx[Handler]].parcel))

(* Handler p holds what match(sell, strategy, ...) gave on the database    *)
(* as it is now, for a SELL.                                               *)
MatchJustCalled(p, strategies) ==
    /\ call[p].op = "match"
    /\ call[p].strategy \in strategies
    /\ call[p].stamp = Stamp
    /\ txns[call[p].sell].transaction_type = "SELL"

(* The matched quantities of the allocations in ms, in order *)
QuantitiesOf(ms) == [k \in 1 .. Len(ms) |-> ms[k].matched_quantity]

(* C8: match with fifo or lifo on a SELL raises MatchingError exactly when *)
(* the sell quantity exceeds the total remaining quantity of the           *)
(* security's parcels, and then returns nothing; otherwise the matched     *)
(* quantities of the allocations it returns add up to the sell quantity.   *)
AutoMatchesAllOrRaises ==
    \A p \in Procs :
        MatchJustCalled(p, {"fifo", "lifo"}) =>
            LET sell == txns[call[p].sell]
                total == TotalAvailable(parcels, sell.security)
            IN  /\ outcome[p] \in {"MatchingError", "returned"}
                /\ outcome[p] = "MatchingError" <=> sell.quantity > total
                /\ outcome[p] = "MatchingError" => proposal[p] = <<>>
                /\ outcome[p] = "returned" =>
                       SumSeq(QuantitiesOf(proposal[p])) = sell.quantity

(* C8 witness: match raised although parcels of the security have          *)
(* quantity left, because together they have less than the sell quantity.  *)
AutoMatchRaisedOnShortfall ==
    \E p \in Procs :
        /\ MatchJustCalled(p, {"fifo", "lifo"})
        /\ outcome[p] = "MatchingError"
        /\ TotalAvailable(parcels, txns[call[p].sell].security) > 0

(* d1 may come before d2 in the order of the strategy *)
InStrategyOrder(strategy, d1, d2) ==
    IF strategy = "fifo" THEN d1 <= d2 ELSE d1 >= d2

(* C9: the allocations fifo (lifo) returns are in ascending (descending)   *)
(* order of acquisition date, each takes the smaller of its parcel's       *)
(* remaining quantity and the quantity still needed, every one but the     *)
(* last takes its parcel's whole remaining quantity, and no unused parcel  *)
(* of the security with quantity left was acquired before (after) a used   *)
(* one.                                                                    *)
AutoMatchesInDateOrder ==
    \A p \in Procs :
        (MatchJustCalled(p, {"fifo", "lifo"}) /\ outcome[p] = "returned") =>
            LET sell == txns[call[p].sell]
                A == proposal[p]
                used == {A[k].parcel : k \in 1 .. Len(A)}
                date(k) == parcels[A[k].parcel].acquisition_date
                needed(k) ==
                    sell.quantity - SumSeq(QuantitiesOf(SubSeq(A, 1, k - 1)))
            IN  /\ \A k, l \in 1 .. Len(A) :
                       k < l => /\ InStrategyOrder(call[p].strategy,
                                                   date(k), date(l))
                                /\ A[k].parcel # A[l].parcel
                /\ \A k \in 1 .. Len(A) :
                       /\ A[k].matched_quantity =
                              Min(parcels[A[k].parcel].remaining_quantity,
                                  needed(k))
                       /\ k < Len(A) =>
                              A[k].matched_quantity =
                                  parcels[A[k].parcel].remaining_quantity
                /\ \A u \in AvailableParcels(parcels, sell.security) \ used :
                       \A k \in 1 .. Len(A) :
                           InStrategyOrder(call[p].strategy, date(k),
                                           parcels[u].acquisition_date)

(* C9 witness: match returned two allocations on parcels of different      *)
(* dates, the first the whole of its parcel and the last a part of its     *)
(* parcel.                                                                 *)
AutoMatchSpansParcels ==
    \E p \in Procs :
        /\ MatchJustCalled(p, {"fifo", "lifo"})
        /\ outcome[p] = "returned"
        /\ Len(proposal[p]) = 2
        /\ parcels[proposal[p][1].parcel].acquisition_date
             # parcels[proposal[p][2].parcel].acquisition_date
        /\ proposal[p][2].matched_quantity
             < parcels[proposal[p][2].parcel].remaining_quantity

(* The positions of qs that hold a quantity greater than 0 *)
Positive(qs) == {i \in 1 .. Len(qs) : qs[i] > 0}

(* The quantities of qs greater than 0, added up *)
SumPositive(qs) ==
    SumSeq([i \in 1 .. Len(qs) |-> IF qs[i] > 0 THEN qs[i] ELSE 0])

(* The number of positions up to i that hold a quantity greater than 0 *)
RankAmongPositive(qs, i) == Cardinality({j \in Positive(qs) : j <= i})

CommitsWhatWasForecast(p) ==
    /\ pc[p] = "confirm"
    /\ idx[p] > Len(proposal[p])
    /\ call[p].strategy \in {"fifo", "lifo"}
    /\ call[p].stamp = Stamp
    /\ fc[p].op = "forecast"
    /\ fc[p].optimal.quantity_matched > 0
    /\ fc[p].stamps = {Stamp}
    /\ LET sell == txns[call[p].sell]
       IN  /\ sell.security = fc[p].security
           /\ sell.quantity = fc[p].quantity
           /\ sell.unit_price = fc[p].sell_price
           /\ sell.trade_date = fc[p].sell_date

(* The field f of the records of ms, added up *)
Total(ms, f) == SumSeq([k \in 1 .. Len(ms) |-> ms[k][f]])

(* C6 as stated: the totals and per-lot quantities a successful forecast   *)
(* reports for a strategy equal the sums and per-lot quantities of the     *)
(* ParcelMatch rows that match and confirm_matches persist for a SELL with *)
(* the same strategy, security, quantity, unit price, trade date and lot   *)
(* state.                                                                  *)
ForecastEqualsCommit ==
    [][\A p \in Procs :
          (CommitsWhatWasForecast(p) /\ outcome'[p] = "saved") =>
              LET saved == SubSeq(matches', Len(matches) + 1, Len(matches'))
                  r == fc[p][call[p].strategy]
              IN  /\ r.total_cost_base = Total(saved, "cost_base_aud")
                  /\ r.total_proceeds = Total(saved, "proceeds_aud")
                  /\ r.total_gain_loss = Total(saved, "capital_gain_loss")
                  /\ r.total_discount = Total(saved, "discount_amount")
                  /\ r.total_net_gain = Total(saved, "net_capital_gain")
                  /\ Len(r.parcels_consumed) = Len(saved)
                  /\ \A k \in 1 .. Len(saved) :
                         /\ r.parcels_consumed[k].parcel_id = saved[k].parcel
                         /\ r.parcels_consumed[k].matched_quantity
                              = saved[k].matched_quantity]_vars

(* C7: a step that changes the remaining_quantity or is_fully_matched of   *)
(* an existing parcel, or the ParcelMatch table, is the commit of a        *)
(* confirm_matches call; no step of match or forecast, returning or        *)
(* raising, and no proposal left unconfirmed changes them.                 *)
OnlyConfirmChangesParcels ==
    [][(\/ matches' # matches
        \/ \E i \in 1 .. Len(parcels) :
               \/ parcels'[i].remaining_quantity
                    # parcels[i].remaining_quantity
               \/ parcels'[i].is_fully_matched # parcels[i].is_fully_matched)
         => \E p \in Procs : pc[p] = "confirm" /\ outcome'[p] = "saved"]_vars

(* C7 witness: after an earlier confirm_matches, a forecast has returned   *)
(* and match has returned a proposal that is not confirmed; the parcels    *)
(* the proposal names still have the quantity it asks for.                 *)
ProposalLeftUnconfirmed ==
    \E p \in Procs :
        /\ MatchJustCalled(p, {"fifo", "lifo"})
        /\ outcome[p] = "returned"
        /\ proposal[p] # <<>>
        /\ fc[p].optimal.quantity_matched > 0
        /\ matches # <<>>
        /\ \A k \in 1 .. Len(proposal[p]) :
               parcels[proposal[p][k].parcel].remaining_quantity
                   >= proposal[p][k].matched_quantity

(* The slices match has just proposed for handler p: the allocation, its   *)
(* parcel and its SELL.                                                    *)
SlicesJustBuilt(p) ==
    IF MatchJustCalled(p, {"fifo", "lifo"}) /\ outcome[p] = "returned"
    THEN {[m |-> proposal[p][k], parcel |-> parcels[proposal[p][k].parcel],
           sell |-> txns[call[p].sell]] : k \in 1 .. Len(proposal[p])}
    ELSE {}

(* Days between the acquisition of the slice's parcel and its sale *)
DaysHeld(s) == s.sell.trade_date - s.parcel.acquisition_date

(* C11: calculate_cgt marks a slice as eligible for the discount exactly   *)
(* when it was held for more than 365 days and its gain is greater than    *)
(* zero: 365 days are not enough, 366 days with a gain are, and a slice    *)
(* with a loss or no gain is never eligible and has a discount of zero.    *)
DiscountNeedsOverAYearAndAGain ==
    \A p \in Procs : \A s \in SlicesJustBuilt(p) :
        /\ s.m.cgt_discount_eligible <=>
               (DaysHeld(s) > 365 /\ s.m.capital_gain_loss > 0)
        /\ DaysHeld(s) = 365 => ~s.m.cgt_discount_eligible
        /\ (DaysHeld(s) = 366 /\ s.m.capital_gain_loss > 0) =>
               s.m.cgt_discount_eligible
        /\ s.m.capital_gain_loss <= 0 =>
               ~s.m.cgt_discount_eligible /\ s.m.discount_amount = 0

(* C11 witness: a slice with a gain held for exactly 365 days was built    *)
(* and is not eligible.                                                    *)
GainAfterExactlyAYear ==
    \E p \in Procs : \E s \in SlicesJustBuilt(p) :
        /\ DaysHeld(s) = 365
        /\ s.m.capital_gain_loss > 0
        /\ ~s.m.cgt_discount_eligible

ForecastJustEnded(p) ==
    /\ call[p].op = "forecast"
    /\ fc[p].op = "forecast"
    /\ pc[p] = "idle"
    /\ fc[p].stamps = {Stamp}

(* The parcels of security sec with quantity left *)
LotsLeft(sec) ==
    {i \in 1 .. Len(parcels) :
        parcels[i].security = sec /\ parcels[i].remaining_quantity > 0}

(* C13: forecast raises ForecastError when the quantity is 0 or less, the  *)
(* price is 0 or less, no parcel of the security has quantity left, or the *)
(* parcels of the security have less left in total than the quantity asked *)
(* for, and in no other case; when it returns, each of the results fifo,   *)
(* lifo and optimal has the whole quantity matched and no shortfall.       *)
ForecastRaisesOrMatchesAll ==
    \A p \in Procs :
        ForecastJustEnded(p) =>
            LET f == fc[p]
                invalid == \/ f.quantity <= 0
                           \/ f.sell_price <= 0
                           \/ LotsLeft(f.security) = {}
                           \/ TotalAvailable(parcels, f.security) < f.quantity
            IN  /\ outcome[p] \in {"ForecastError", "returned"}
                /\ outcome[p] = "ForecastError" <=> invalid
                /\ outcome[p] = "returned" =>
                       \A r \in {f.fifo, f.lifo, f.optimal} :
                           /\ r.quantity_matched = f.quantity
                           /\ r.quantity_shortfall = 0

(* C13 witness: forecast returned for a quantity that takes everything two *)
(* lots have left.                                                         *)
ForecastTookAllOfTwoLots ==
    \E p \in Procs :
        /\ ForecastJustEnded(p)
        /\ outcome[p] = "returned"
        /\ TotalAvailable(parcels, fc[p].security) = fc[p].quantity
        /\ Len(fc[p].optimal.parcels_consumed) = 2

(* C14 as stated: a call of match that is given a negative quantity, or of *)
(* forecast that is given a negative quantity or price, ends in an error   *)
(* (and, no call but confirm_matches writing parcels, leaves every         *)
(* remaining_quantity as it was).                                          *)
NegativeInputsRejected ==
    \A p \in Procs :
        /\ (/\ MatchJustCalled(p, {"manual"})
            /\ \E k \in 1 .. Len(call[p].quantities) :
                   call[p].quantities[k] < 0)
               => outcome[p] = "MatchingError" /\ proposal[p] = <<>>
        /\ (/\ ForecastJustEnded(p)
            /\ (fc[p].quantity < 0 \/ fc[p].sell_price < 0))
               => outcome[p] = "ForecastError"

(* Handler-independent: fy_summary has just returned and the database is   *)
(* as the call found it.                                                   *)
FyJustReported ==
    /\ report.op = "fy_summary"
    /\ report.before = Stamp

(* The trade date of the SELL of the committed allocation k *)
SellDateOf(k) == txns[matches[k].sell_transaction].trade_date

(* The committed allocations whose SELL was traded from 1 July of year - 1 *)
(* to 30 June of year                                                      *)
SoldInFy(year) ==
    LET first == Date(year - 1, 7, 1)
        last == Date(year, 6, 30)
    IN  {k \in 1 .. Len(matches) :
            first <= SellDateOf(k) /\ SellDateOf(k) <= last}

(* 30 June and 1 July of the years of the model *)
ThirtiethOfJune == [y \in Years |-> Date(y, 6, 30)]

FirstOfJuly == [y \in Years |-> Date(y, 7, 1)]

(* C15: fy_summary(year) counts exactly the committed allocations whose    *)
(* SELL was traded from 1 July of year - 1 to 30 June of year, both days   *)
(* included: a sale on 30 June of year is counted in year, a sale on       *)
(* 1 July of year in year + 1, and every allocation is counted in exactly  *)
(* one financial year, the one the report view offers for its date.        *)
FyCountsJulyToJune ==
    LET Counted == [y \in Years \cup {y + 1 : y \in Years} |->
                       LET sel == FyMatches(matches, txns, y)
                       IN  {sel[i] : i \in 1 .. Len(sel)}]
        offered == get_available_fys(matches, txns)
    IN  /\ FyJustReported =>
               report.summary.match_count =
                   Cardinality(SoldInFy(report.summary.financial_year))
        /\ \A k \in 1 .. Len(matches) :
               /\ \A y \in Years :
                      /\ SellDateOf(k) = ThirtiethOfJune[y] =>
                             /\ matches[k] \in Counted[y]
                             /\ matches[k] \notin Counted[y + 1]
                      /\ SellDateOf(k) = FirstOfJuly[y] =>
                             /\ matches[k] \in Counted[y + 1]
                             /\ matches[k] \notin Counted[y]
               /\ Cardinality({y \in DOMAIN Counted :
                                  matches[k] \in Counted[y]}) = 1
               /\ \A y \in DOMAIN Counted :
                      matches[k] \in Counted[y] => y \in offered

(* C15 witness: with one allocation committed for a sale on 30 June 2025   *)
(* and one for a sale on 1 July 2025, fy_summary(2025) has just reported   *)
(* one allocation.                                                         *)
FyReportedAcrossTheBoundary ==
    /\ FyJustReported
    /\ report.summary.financial_year = 2025
    /\ report.summary.match_count = 1
    /\ \E k \in 1 .. Len(matches) : SellDateOf(k) = Date(2025, 6, 30)
    /\ \E k \in 1 .. Len(matches) : SellDateOf(k) = Date(2025, 7, 1)

(* The field f of the committed allocations with index in S, added up *)
TotalOf(S, f) ==
    SumSeq([k \in 1 .. Len(matches) |-> IF k \in S THEN matches[k][f] ELSE 0])

(* The security of the parcel of the committed allocation k *)
TickerOf(k) == parcels[matches[k].parcel].security

(* C16: fy_summary returns as total_gains the sum of the gains greater     *)
(* than zero of the allocations of the year, as total_losses the sum of    *)
(* those that are zero or less, as total_discounts and net_capital_gain    *)
(* the sums of the discounts and net gains of all of them, as match_count  *)
(* their number, and a list with one entry per security that has such an   *)
(* allocation, in ascending order of ticker, whose figures are the sums    *)
(* over the security's allocations and so add up to the totals.            *)
FySummaryAddsUp ==
    FyJustReported =>
        LET r == report.summary
            S == SoldInFy(r.financial_year)
            up == {k \in S : matches[k].capital_gain_loss > 0}
            per == r.per_security
            of(t) == {k \in S : TickerOf(k) = t}
            PerTotal(f) == SumSeq([i \in 1 .. Len(per) |-> per[i][f]])
        IN  /\ r.total_gains = TotalOf(up, "capital_gain_loss")
            /\ r.total_losses = TotalOf(S \ up, "capital_gain_loss")
            /\ r.total_discounts = TotalOf(S, "discount_amount")
            /\ r.net_capital_gain = TotalOf(S, "net_capital_gain")
            /\ r.match_count = Cardinality(S)
            /\ {per[i].ticker : i \in 1 .. Len(per)} =
                   {TickerOf(k) : k \in S}
            /\ \A i, j \in 1 .. Len(per) :
                   i < j => per[i].ticker < per[j].ticker
            /\ \A i \in 1 .. Len(per) :
                   LET t == per[i].ticker
                   IN  /\ per[i].gains =
                              TotalOf(of(t) \cap up, "capital_gain_loss")
                       /\ per[i].losses =
                              TotalOf(of(t) \ up, "capital_gain_loss")
                       /\ per[i].discounts = TotalOf(of(t), "discount_amount")
                       /\ per[i].net = TotalOf(of(t), "net_capital_gain")
                       /\ per[i].match_count = Cardinality(of(t))
            /\ PerTotal("gains") = r.total_gains
            /\ PerTotal("losses") = r.total_losses
            /\ PerTotal("discounts") = r.total_discounts
            /\ PerTotal("net") = r.net_capital_gain
            /\ PerTotal("match_count") = r.match_count

(* C16 witness: fy_summary has just reported a year with a gain, a loss    *)
(* and a discount, over two securities.                                    *)
FyReportedGainsAndLosses ==
    /\ FyJustReported
    /\ report.summary.total_gains > 0
    /\ report.summary.total_losses < 0
    /\ report.summary.total_discounts > 0
    /\ Len(report.summary.per_security) = 2

(* Handler p's forecast has just returned its three results *)
ForecastJustReturned(p) == ForecastJustEnded(p) /\ outcome[p] = "returned"

(* C17 as stated: whenever forecast succeeds, the net capital gain of the  *)
(* optimal result is at most that of the fifo result and at most that of   *)
(* the lifo result.                                                        *)
OptimalHasLowestNetGain ==
    \A p \in Procs :
        ForecastJustReturned(p) =>
            /\ fc[p].optimal.total_net_gain <= fc[p].fifo.total_net_gain
            /\ fc[p].optimal.total_net_gain <= fc[p].lifo.total_net_gain

(* C18: the optimal result of a successful forecast takes the lots in      *)
(* descending order of cost per unit, each lot whole but the last and none *)
(* that costs less than a lot it leaves, and its gross gain is at most     *)
(* that of the fifo result and at most that of the lifo result.            *)
OptimalHasLowestGrossGain ==
    \A p \in Procs :
        ForecastJustReturned(p) =>
            LET used == fc[p].optimal.parcels_consumed
                usedIds == {used[i].parcel_id : i \in 1 .. Len(used)}
            IN  /\ \A i, j \in 1 .. Len(used) :
                       i < j =>
                           /\ used[i].cost_per_unit_aud
                                  >= used[j].cost_per_unit_aud
                           /\ used[i].matched_quantity =
                                  parcels[used[i].parcel_id].remaining_quantity
                /\ \A i \in 1 .. Len(used) :
                       used[i].cost_per_unit_aud =
                           parcels[used[i].parcel_id].cost_per_unit_aud
                /\ \A k \in LotsLeft(fc[p].security) \ usedIds :
                       \A i \in 1 .. Len(used) :
                           parcels[k].cost_per_unit_aud
                               <= used[i].cost_per_unit_aud
                /\ fc[p].optimal.total_gain_loss <= fc[p].fifo.total_gain_loss
                /\ fc[p].optimal.total_gain_loss <= fc[p].lifo.total_gain_loss

(* C18 witness: forecast returned an optimal result with a smaller gross   *)
(* gain than both the fifo and the lifo result.                            *)
OptimalBeatsFifoAndLifo ==
    \E p \in Procs :
        /\ ForecastJustReturned(p)
        /\ fc[p].optimal.total_gain_loss < fc[p].fifo.total_gain_loss
        /\ fc[p].optimal.total_gain_loss < fc[p].lifo.total_gain_loss

(* The parcels of tbl created for the transaction with primary key k *)
ParcelsOf(tbl, k) == {i \in 1 .. Len(tbl) : tbl[i].transaction = k}

(* A parcel as it is when just created for its BUY *)
FreshFor(parcel, txn) ==
    /\ parcel.security = txn.security
    /\ parcel.acquisition_date = txn.trade_date
    /\ parcel.original_quantity = txn.quantity
    /\ parcel.remaining_quantity = txn.quantity
    /\ parcel.is_fully_matched = FALSE

(* This step is the commit of a confirm_matches call *)
IsConfirmCommit ==
    \E p \in Procs :
        pc[p] = "confirm" /\ pc'[p] = "idle" /\ outcome'[p] = "saved"

(* C19: a step creates a transaction only together with its parcel: one    *)
(* parcel for a BUY, with the BUY's trade date as acquisition date, its    *)
(* quantity as original and remaining quantity and is_fully_matched false, *)
(* none for a SELL, and no parcel otherwise; a parcel, once created, stays *)
(* in the table with its transaction, date and original quantity, and its  *)
(* remaining quantity and is_fully_matched change only in the step that    *)
(* commits a confirm_matches call.                                         *)
ParcelPerBuyForLife ==
    [][/\ Len(txns') >= Len(txns)
       /\ Len(parcels') >= Len(parcels)
       /\ \A k \in 1 .. Len(txns') :
              Cardinality(ParcelsOf(parcels', k)) =
                  IF txns'[k].transaction_type = "BUY" THEN 1 ELSE 0
       /\ \A i \in Len(parcels) + 1 .. Len(parcels') :
              /\ parcels'[i].transaction \in Len(txns) + 1 .. Len(txns')
              /\ FreshFor(parcels'[i], txns'[parcels'[i].transaction])
       /\ \A i \in 1 .. Len(parcels) :
              /\ parcels'[i].transaction = parcels[i].transaction
              /\ parcels'[i].security = parcels[i].security
              /\ parcels'[i].acquisition_date = parcels[i].acquisition_date
              /\ parcels'[i].original_quantity = parcels[i].original_quantity
              /\ parcels'[i] # parcels[i] => IsConfirmCommit
      ]_vars

(* C19 witness: a file with a BUY and a SELL was imported whole, and a     *)
(* commit has since taken from a parcel.                                   *)
ImportedBuyAndSellThenCommitted ==
    /\ report.op = "confirm_import"
    /\ ~report.error
    /\ report.row_count = 2
    /\ {report.file[i].transaction_type : i \in 1 .. Len(report.file)} =
           {"BUY", "SELL"}
    /\ \E i \in 1 .. Len(parcels) :
           parcels[i].remaining_quantity < parcels[i].original_quantity

(* No two transactions have the same trade date, security, type, quantity  *)
(* and unit price                                                          *)
NoTupleTwice ==
    \A i, j \in 1 .. Len(txns) :
        i # j => UniqueKey(txns[i]) # UniqueKey(txns[j])

(* The last call of confirm_import, and the table it found and left *)
ImportJustReported == report.op = "confirm_import"

TxnsBeforeImport == SubSeq(txns, 1, report.before[1])

TxnsOfImport == SubSeq(txns, report.before[1] + 1, Len(txns))

(* The tuple of row r is in the table ts *)
TupleIn(r, ts) == \E k \in 1 .. Len(ts) : UniqueKey(ts[k]) = UniqueKey(r)

(* C20 as stated: no two transactions share the tuple, and confirm_import  *)
(* returns having skipped every row whose tuple was already there and      *)
(* created the others, so that a file whose rows are all there creates     *)
(* nothing and reports row_count 0.                                        *)
ImportSkipsEveryDuplicate ==
    /\ NoTupleTwice
    /\ ImportJustReported =>
           /\ ~report.error
           /\ report.row_count = Len(TxnsOfImport)
           /\ \A i \in 1 .. Len(report.file) :
                  TupleIn(report.file[i], txns)
           /\ (\A i \in 1 .. Len(report.file) :
                   TupleIn(report.file[i], TxnsBeforeImport))
                  => report.row_count = 0 /\ TxnsOfImport = <<>>

(* C21: in every committed state each parcel's original quantity less its  *)
(* remaining quantity is the sum of the matched quantities of the          *)
(* persisted ParcelMatch rows on it, and every row a confirm_matches call  *)
(* has written in its transaction is the committed row less what the call  *)
(* itself has saved against it: the call read what earlier commits left.   *)
NoUpdateLost ==
    /\ \A i \in 1 .. Len(parcels) :
           parcels[i].original_quantity - parcels[i].remaining_quantity =
               MatchedOn(matches, i)
    /\ \A p \in Procs : \A k \in 1 .. Len(txnParcels[p]) :
           txnParcels[p][k].row.remaining_quantity =
               parcels[txnParcels[p][k].pk].remaining_quantity
                   - MatchedOn(txnSaved[p], txnParcels[p][k].pk)

(* C21 witness: a confirm_matches call has written a parcel that another   *)
(* call committed against after this one had started.                      *)
WroteAfterAnotherCommit ==
    \E p \in Procs : \E k \in 1 .. Len(txnParcels[p]) :
        /\ pc[p] = "confirm"
        /\ MatchedOn(MatchesSince(pre[p].nm), txnParcels[p][k].pk) > 0
        /\ MatchedOn(txnSaved[p], txnParcels[p][k].pk) > 0

(* C22: no step of import, match, confirm_matches or forecast raises the   *)
(* remaining quantity of a parcel, in the table or in a row a transaction  *)
(* writes, and a parcel with nothing left keeps nothing left.              *)
RemainingNeverGrows ==
    [][/\ \A i \in 1 .. Len(parcels) :
              /\ parcels'[i].remaining_quantity
                     <= parcels[i].remaining_quantity
              /\ parcels[i].remaining_quantity = 0 =>
                     parcels'[i].remaining_quantity = 0
       /\ \A p \in Procs : \A k \in 1 .. Len(txnParcels'[p]) :
              txnParcels'[p][k].row.remaining_quantity
                  <= ReadForUpdate(p, txnParcels'[p][k].pk).remaining_quantity
      ]_vars

(* C22 witness: match was called with a list that names a parcel which     *)
(* commits have used up.                                                   *)
MatchCalledOnUsedUpParcel ==
    \E p \in Procs : \E k \in 1 .. Len(call[p].parcels) :
        /\ MatchJustCalled(p, {"manual"})
        /\ parcels[call[p].parcels[k]].original_quantity > 0
        /\ parcels[call[p].parcels[k]].remaining_quantity = 0
        /\ MatchedOn(matches, call[p].parcels[k]) > 0

(* Every allocation of the list A, taken in order, asks for no more than   *)
(* its parcel has left in tbl after the earlier allocations of the list    *)
Fits(A, tbl) ==
    \A k \in 1 .. Len(A) :
        A[k].matched_quantity
            <= tbl[A[k].parcel].remaining_quantity
                   - MatchedOn(SubSeq(A, 1, k - 1), A[k].parcel)

(* C23: a confirm_matches call ends in success exactly when its            *)
(* allocations, in the order given, each ask for no more than the parcel   *)
(* has left after the commits so far and the earlier allocations of the    *)
(* call; on success every parcel loses exactly what the list matches       *)
(* against it and one row is persisted per allocation, in order; otherwise *)
(* it raises MatchingError and nothing changes.                            *)
ConfirmChecksEachInOrder ==
    [][\A p \in Procs :
          (pc[p] = "confirm" /\ pc'[p] = "idle") =>
              LET A == proposal[p]
                  n == Len(matches)
              IN  /\ outcome'[p] \in {"saved", "MatchingError"}
                  /\ outcome'[p] = "saved" <=> Fits(A, parcels)
                  /\ outcome'[p] = "saved" =>
                         /\ \A i \in 1 .. Len(parcels) :
                                parcels'[i].remaining_quantity =
                                    parcels[i].remaining_quantity
                                        - MatchedOn(A, i)
                         /\ Len(matches') = n + Len(A)
                         /\ \A k \in 1 .. Len(A) :
                                /\ matches'[n + k].parcel = A[k].parcel
                                /\ matches'[n + k].sell_transaction =
                                       A[k].sell_transaction
                                /\ matches'[n + k].matched_quantity =
                                       A[k].matched_quantity
                  /\ outcome'[p] = "MatchingError" =>
                         parcels' = parcels /\ matches' = matches]_vars

(* C23 witness: a call has taken its first allocation from a parcel and    *)
(* reads the same parcel for its second, which no longer fits because      *)
(* another call committed against the parcel after the proposal was made.  *)
StaleSecondAllocationOnSameParcel ==
    \E p \in Procs :
        /\ pc[p] = "confirm"
        /\ idx[p] = 2
        /\ Len(proposal[p]) >= 2
        /\ proposal[p][1].parcel = proposal[p][2].parcel
        /\ MatchedOn(MatchesSince(pre[p].nm), proposal[p][2].parcel) > 0
        /\ Fits(proposal[p], pre[p].parcels)
        /\ ~Fits(proposal[p], parcels)

(* The parcels a list of allocations references *)
ProposalParcels(A) == {A[k].parcel : k \in 1 .. Len(A)}

(* No row committed since handler p started its call is on a parcel of     *)
(* its list                                                                *)
OthersLeftAlone(p) ==
    \A k \in pre[p].nm + 1 .. Len(matches) :
        matches[k].parcel \notin ProposalParcels(proposal[p])

(* C24: two confirm_matches calls on disjoint sets of parcels never wait   *)
(* on each other (the row the one reads next is never locked by the        *)
(* other); a call whose parcels no other call committed against since it   *)
(* started ends as it would have alone on the state it started from, its   *)
(* parcels end at that state's quantities less its own allocations, and    *)
(* every other parcel is as the other calls left it, so the final state is *)
(* that of the two calls run one after the other in either order.          *)
DisjointConfirmsIndependent ==
    [][\A p \in Procs :
          /\ \A q \in Procs \ {p} :
                 (/\ pc[p] = "confirm"
                  /\ pc[q] = "confirm"
                  /\ idx[p] <= Len(proposal[p])
                  /\ ProposalParcels(proposal[p])
                         \cap ProposalParcels(proposal[q]) = {})
                     => CanLock(p, proposal[p][idx[p]].parcel)
          /\ (pc[p] = "confirm" /\ pc'[p] = "idle" /\ OthersLeftAlone(p)) =>
                 LET A == proposal[p]
                     S == pre[p].parcels
                 IN  /\ outcome'[p] = "saved" <=> Fits(A, S)
                     /\ outcome'[p] = "MatchingError" <=> ~Fits(A, S)
                     /\ \A i \in 1 .. Len(parcels) :
                            IF i \in ProposalParcels(A) /\ Fits(A, S)
                            THEN parcels'[i].remaining_quantity =
                                     S[i].remaining_quantity - MatchedOn(A, i)
                            ELSE parcels'[i] = parcels[i]
                     /\ \A i \in ProposalParcels(A) :
                            parcels[i] = S[i]
                     /\ matches' = matches \o
                            (IF Fits(A, S)
                             THEN [k \in 1 .. Len(A) |-> SaveMatch(A[k])]
                             ELSE <<>>)]_vars

(* C24 witness: two calls are inside confirm_matches at once, each has     *)
(* written and locked a parcel, and their lists share no parcel.           *)
TwoConfirmsHoldDisjointLocks ==
    \E p \in Procs : \E q \in Procs \ {p} :
        /\ pc[p] = "confirm"
        /\ pc[q] = "confirm"
        /\ locks[p] # {}
        /\ locks[q] # {}
        /\ ProposalParcels(proposal[p]) \cap ProposalParcels(proposal[q]) = {}

(* C25: two match(fifo | lifo) calls with the same sale and strategy on    *)
(* the same state of the tables return the same list of allocations, also  *)
(* when lots share an acquisition date.                                    *)
SelectionIsDeterministic ==
    \A p \in Procs : \A q \in Procs \ {p} :
        (/\ call[p].op = "match"
         /\ call[q] = call[p]
         /\ call[p].stamp = Stamp
         /\ outcome[p] = "returned"
         /\ outcome[q] = "returned")
            => proposal[p] = proposal[q]

(* C26: every confirm_matches call eventually ends, by returning or by     *)
(* raising MatchingError, whatever the other handler does.                 *)
ConfirmEventuallyFinishes ==
    \A p \in Procs :
        (pc[p] = "confirm")
            ~> (pc[p] = "idle" /\ outcome[p] \in {"saved", "MatchingError"})

(* C27: a forecast that has returned, whatever was committed between its   *)
(* queries, holds three results with the whole quantity matched and no     *)
(* shortfall, and all its queries saw one state of the parcels.            *)
ForecastReadsOneLotState ==
    \A p \in Procs :
        (/\ call[p].op = "forecast"
         /\ fc[p].op = "forecast"
         /\ pc[p] = "idle"
         /\ outcome[p] = "returned")
            => /\ \A r \in {fc[p].fifo, fc[p].lifo, fc[p].optimal} :
                      /\ r.quantity_shortfall = 0
                      /\ r.quantity_matched = fc[p].quantity
               /\ Cardinality(fc[p].stamps) = 1

(* The proposals still stored in the session *)
StoredIds == {session.store[k].id : k \in DOMAIN session.store}

(* The proposals confirm_match has rebuilt and handed to match *)
UsedIds == {session.used[k] : k \in 1 .. Len(session.used)}

(* C28: no stored proposal is used by more than one confirm_match; once    *)
(* the requests have answered, a proposal that was used is no longer in    *)
(* the session; a confirm_match that finds no pending proposal or whose    *)
(* proposal no longer fits reports an error and changes no parcel and no   *)
(* match row.                                                              *)
PendingProposalUsedOnce ==
    /\ [](/\ Cardinality(UsedIds) = Len(session.used)
          /\ (\A p \in Procs : ~session.local[p].loaded)
                 => StoredIds \cap UsedIds = {})
    /\ [][\A p \in Procs :
             /\ (/\ pc[p] = "idle"
                 /\ call'[p].op = "confirm_match"
                 /\ call'[p] # call[p]) =>
                    /\ outcome'[p] \in {"NoPending", "MatchingError"}
                    /\ parcels' = parcels
                    /\ matches' = matches
                    /\ call'[p].sell \notin DOMAIN session'.store
                    /\ outcome'[p] = "NoPending" <=>
                           call'[p].sell \notin DOMAIN session.store
             /\ (pc[p] = "confirm" /\ outcome'[p] = "MatchingError") =>
                    parcels' = parcels /\ matches' = matches]_vars

(* C29: every list match returns holds only allocations with a quantity    *)
(* above zero on parcels of the sale's security, and confirm_matches       *)
(* called with it, with no other commit in between, succeeds.              *)
MatchListsCanBeCommitted ==
    [][\A p \in Procs :
          /\ (call'[p].op = "match" /\ outcome'[p] = "returned") =>
                 \A k \in 1 .. Len(proposal'[p]) :
                     /\ proposal'[p][k].matched_quantity > 0
                     /\ parcels'[proposal'[p][k].parcel].security =
                            txns'[proposal'[p][k].sell_transaction].security
          /\ (/\ pc[p] = "confirm"
              /\ pc'[p] = "idle"
              /\ Len(matches) = pre[p].nm) => outcome'[p] = "saved"]_vars

(* The cost base the records of ms give to parcel pid, in half millionths *)
CostBaseOn(ms, pid) ==
    SumSeq([k \in 1 .. Len(ms) |->
               IF ms[k].parcel = pid THEN ms[k].cost_base_aud ELSE 0])

(* C30: for every parcel with nothing left, the cost_base_aud of the       *)
(* persisted allocations on it add up to its total_cost_base_aud.          *)
CostBaseConserved ==
    \A i \in 1 .. Len(parcels) :
        parcels[i].remaining_quantity = 0 =>
            CostBaseOn(matches, i) = 2 * parcels[i].total_cost_base_aud

====
